---- MODULE Spec2Model ----
(***************************************************************************)
(* Model of the coverage-aware incremental test synthesis pipeline of      *)
(* universal_tester (src/src/universal_tester/core.py and                  *)
(* llm/java_validator.py).                                                 *)
(*                                                                         *)
(*   Spec        the validate-and-repair loop                              *)
(*               (auto_fix_validation_issues_with_llm)                     *)
(*   LiveSpec    the same loop with weak fairness of its steps             *)
(*   SpecBudget  the iteration budget (get_max_iterations and the          *)
(*               max_iterations argument)                                  *)
(*   SpecCoverage   coverage reconciliation (get_uncovered_methods)        *)
(*   SpecVersion    numbered test files (find_existing_test_files,         *)
(*               get_next_test_file_name)                                  *)
(*   SpecPlace   placing a generated test file (save_test_file,            *)
(*               handle_incremental_test_generation)                       *)
(***************************************************************************)
EXTENDS Integers, Sequences, FiniteSets, TLC

VARIABLES
    pc,                  \* position of auto_fix_validation_issues_with_llm
    max_iterations_arg,  \* the max_iterations argument (None when omitted)
    setting,             \* the MAX_ITERATIONS environment variable
    max_iterations,      \* the budget in force after lines 453-454
    iteration,           \* the loop counter
    current_code,        \* the code under repair
    validation_result,   \* the report the next iteration works from
    best_iteration,      \* the best record held (lines 460-465, 621-627)
    returned,            \* the function's return value
    history,             \* every scored record, in order (observation only)
    gen_calls,           \* llm.ainvoke calls of the loop (observation only)
    val_calls,           \* validator calls of the loop (observation only)
    gen_threw_at,        \* iteration whose generator call threw, 0 if none
    val_outcome,         \* how the last validator call of the loop ended
    cov,                 \* coverage reconciliation: inputs, position, result
    ver,                 \* numbered test files: directory, position, result
    place,               \* placing test files: the directories, the last place
    batch,               \* the batch over the source units of an archive
    imp,                 \* import detection of analyze_java_code
    filt,                \* filtering generated test content to the uncovered methods
    req,                 \* the issues collected for one repair request
    gen,                 \* the validation of one generated test and the repair gate
    ana,                 \* the analysis of one unit with incremental support
    unit                 \* one unit in incremental mode: analysis, generation, placing

loopVars == <<pc, max_iterations_arg, setting, max_iterations, iteration,
              current_code, validation_result, best_iteration, returned,
              history, gen_calls, val_calls, gen_threw_at, val_outcome>>
vars == <<pc, max_iterations_arg, setting, max_iterations, iteration,
          current_code, validation_result, best_iteration, returned,
          history, gen_calls, val_calls, gen_threw_at, val_outcome, cov, ver,
          place, batch, imp, filt, req, gen, ana, unit>>

\* an omitted argument is the empty sequence, a given one <<n>>
None == <<>>
\* the environment variable: not set, or set to a string of characters
Unset == [set |-> FALSE, value |-> <<>>]
SetTo(s) == [set |-> TRUE, value |-> s]
\* the value of returned before the function has returned
NotReturned == 0 - 1

RECURSIVE SeqsUpTo(_, _)
SeqsUpTo(S, n) ==
    IF n = 0 THEN {<<>>}
    ELSE LET shorter == SeqsUpTo(S, n - 1)
         IN  shorter \cup {Append(s, c) : s \in {t \in shorter : Len(t) = n - 1}, c \in S}

(***************************************************************************)
(* The iteration budget: get_max_iterations, core.py 146-167.              *)
(* The environment value is a string; int() is modelled on sequences of    *)
(* characters: surrounding whitespace is stripped, one sign is allowed,    *)
(* digits may be grouped by single underscores, anything else raises       *)
(* ValueError.                                                             *)
(***************************************************************************)
DigitChars == {"0", "1", "2", "3", "4", "5", "6", "7", "8", "9"}

DigitValue(c) ==
    CASE c = "0" -> 0 [] c = "1" -> 1 [] c = "2" -> 2 [] c = "3" -> 3
      [] c = "4" -> 4 [] c = "5" -> 5 [] c = "6" -> 6 [] c = "7" -> 7
      [] c = "8" -> 8 [] c = "9" -> 9

RECURSIVE StripLeft(_)
StripLeft(s) ==
    IF s # <<>> /\ Head(s) = " " THEN StripLeft(Tail(s)) ELSE s

RECURSIVE StripRight(_)
StripRight(s) ==
    IF s # <<>> /\ s[Len(s)] = " " THEN StripRight(SubSeq(s, 1, Len(s) - 1)) ELSE s

Strip(s) == StripRight(StripLeft(s))

\* the digits-and-underscores part of an integer literal
ValidDigits(b) ==
    /\ b # <<>>
    /\ \A i \in 1..Len(b) : b[i] \in DigitChars \cup {"_"}
    /\ b[1] \in DigitChars
    /\ b[Len(b)] \in DigitChars
    /\ \A i \in 1..Len(b) - 1 : ~(b[i] = "_" /\ b[i + 1] = "_")

RECURSIVE DigitsValue(_, _)
DigitsValue(b, acc) ==
    IF b = <<>> THEN acc
    ELSE IF Head(b) = "_" THEN DigitsValue(Tail(b), acc)
    ELSE DigitsValue(Tail(b), 10 * acc + DigitValue(Head(b)))

\* int(s): [ok |-> TRUE, value |-> n], or ok = FALSE for ValueError
ParseInt(s) ==
    LET t    == Strip(s)
        sign == IF t # <<>> /\ Head(t) \in {"+", "-"} THEN Head(t) ELSE ""
        body == IF sign = "" THEN t ELSE Tail(t)
    IN  IF ValidDigits(body)
        THEN [ok |-> TRUE,
              value |-> IF sign = "-" THEN 0 - DigitsValue(body, 0)
                        ELSE DigitsValue(body, 0)]
        ELSE [ok |-> FALSE, value |-> 0]

DefaultMaxIterations == 3
MinIterations == 1
MaxIterationsCap == 10

\* a mutant of get_max_iterations: the upper clamp is forgotten
get_max_iterations_no_cap(env) ==
    LET p == ParseInt(IF env.set THEN env.value ELSE <<"3">>)
    IN  IF ~p.ok THEN DefaultMaxIterations
        ELSE IF p.value < MinIterations THEN MinIterations
        ELSE p.value

get_max_iterations(env) ==
    LET p == ParseInt(IF env.set THEN env.value ELSE <<"3">>)
    IN  IF ~p.ok THEN DefaultMaxIterations
        ELSE IF p.value < MinIterations THEN MinIterations
        ELSE IF p.value > MaxIterationsCap THEN MaxIterationsCap
        ELSE p.value

\* lines 453-454: the argument wins when given, unclamped
EffectiveMaxIterations(arg, env) ==
    IF arg = None THEN get_max_iterations(env) ELSE arg[1]

(***************************************************************************)
(* Validation reports.  The four issue collections are modelled by their   *)
(* lengths.  shape tells how the parsed JSON is built:                     *)
(*   "ok"              every issue entry is a mapping                      *)
(*   "non_dict_entry"  an entry of critical_issues, missing_imports or     *)
(*                     compilation_errors is not a mapping (a bare string):*)
(*                     imp.get / issue.get raise AttributeError            *)
(*   "null_collection" a collection is null: len() raises TypeError        *)
(***************************************************************************)
Report(st, c, m, k, u, sh) ==
    [validation_status |-> st, critical_issues |-> c, missing_imports |-> m,
     compilation_errors |-> k, unused_imports |-> u, shape |-> sh]

CriticalWeight == 10
CompilationWeight == 8
MissingImportWeight == 5
UnusedImportWeight == 1

\* core.py 470-479
calculate_total_issues(r) ==
    (r.critical_issues * CriticalWeight) + (r.compilation_errors * CompilationWeight)
        + (r.missing_imports * MissingImportWeight) + (r.unused_imports * UnusedImportWeight)

\* core.py 491-522: the length of all_issues
AllIssuesCount(r) ==
    r.critical_issues + r.missing_imports + r.compilation_errors + r.unused_imports

MajorsZero(r) ==
    r.critical_issues = 0 /\ r.missing_imports = 0 /\ r.compilation_errors = 0

\* a mutant of StopAfterRevalidation: only an explicit PASS stops the loop
StopAfterRevalidation_pass_only(r) == r.validation_status = "PASS"

\* core.py 632-638
StopAfterRevalidation(r) ==
    \/ r.validation_status = "PASS"
    \/ MajorsZero(r)

\* a mutant of IsImprovement: the latest iteration always replaces the best
IsImprovement_always(current_issues, best) == TRUE

\* core.py 621
IsImprovement(current_issues, best) == current_issues < best.total_issues

\* a mutant of LoopContinues: off by one
LoopContinues_off_by_one(it, max) == it <= max

\* core.py 487
LoopContinues(it, max) == it < max

\* a mutant of ReturnValue: the original input is handed back
ReturnValue_original(best, java_code) == java_code

\* core.py 666
ReturnValue(best, java_code) == best.code

(***************************************************************************)
(* The external validator as the loop sees it: java_validator.py 142-200.  *)
(* It never raises: an answer that is not JSON gives an empty WARNING      *)
(* report; an exception gives an ERROR report holding one critical issue,  *)
(* and so does a JSON answer that is not an object, because the item       *)
(* assignment of line 163 raises TypeError on it.                          *)
(***************************************************************************)
WarningReport == Report("WARNING", 0, 0, 0, 0, "ok")
ErrorReport == Report("ERROR", 1, 0, 0, 0, "ok")

validate_java_imports_and_compilation(outcome) ==
    CASE outcome.kind = "parsed" -> outcome.report
      [] outcome.kind = "unparsable" -> WarningReport
      [] outcome.kind = "not_a_mapping" -> ErrorReport
      [] outcome.kind = "throws" -> ErrorReport

(***************************************************************************)
(* Inputs.  Codes are named by the iteration that produced them: 0 is the  *)
(* java_code argument, k the cleaned answer of iteration k's generator     *)
(* call.                                                                   *)
(***************************************************************************)
MaxBudget == 2

JavaCode == 0

CountRange == 0..1
\* the 3-critical/2-missing report of the scenario, and a 2-missing report
\* whose score ties with one critical issue
ExtraCounts == {<<3, 0, 2, 0>>, <<0, 0, 2, 0>>}
CountTuples ==
    {<<c, m, k, u>> : c \in CountRange, m \in CountRange, k \in CountRange, u \in CountRange}
        \cup ExtraCounts

\* the statuses the loop tells apart in a parsed answer: line 633 tests
\* only for "PASS"
ParsedStatuses == {"PASS", "FAIL"}

WellFormedReports ==
    {Report(st, t[1], t[2], t[3], t[4], "ok") : st \in ParsedStatuses, t \in CountTuples}

\* a non-mapping entry sits in one of the three collections that are read
\* with .get, so one of them is not empty
NonDictReports ==
    {Report("FAIL", t[1], t[2], t[3], t[4], "non_dict_entry") :
        t \in {x \in CountTuples : x[1] + x[2] + x[3] > 0}}

NullCollectionReport == Report("FAIL", 0, 0, 0, 0, "null_collection")

\* a critical issue, and one of the other collections is null
CriticalNullCollectionReport == Report("FAIL", 1, 0, 0, 0, "null_collection")

ParsedReports == WellFormedReports \cup NonDictReports \cup {NullCollectionReport}

ValidatorOutcomes ==
    {[kind |-> "parsed", report |-> r] : r \in ParsedReports}
        \cup {[kind |-> "unparsable", report |-> WarningReport],
              [kind |-> "not_a_mapping", report |-> ErrorReport],
              [kind |-> "throws", report |-> ErrorReport]}

\* the report handed to the loop when the loop is looked at alone: its
\* collections are lists, so that the score of the input is defined; the
\* loop never reads its status.  The pipeline hands over a report with a
\* null collection as well (CriticalNullCollectionReport).
InitialReports ==
    {Report("FAIL", t[1], t[2], t[3], t[4], sh) :
        t \in CountTuples, sh \in {"ok", "non_dict_entry"}}
        \ {Report("FAIL", 0, 0, 0, u, "non_dict_entry") : u \in CountRange}

LoopSettings == {SetTo(<<"0">>)}

NoBest == [code |-> JavaCode, validation_result |-> WarningReport,
           iteration_number |-> 0, total_issues |-> 0]

IdleCov == [pc |-> "idle"]
IdleVer == [pc |-> "idle"]
IdlePlace == [pc |-> "idle"]
IdleBatch == [pc |-> "idle"]
IdleImp == [pc |-> "idle"]
IdleUnit == [pc |-> "idle"]
IdleAna == [pc |-> "idle"]
IdleGen == [pc |-> "idle"]
IdleReq == [pc |-> "idle"]
IdleFilt == [pc |-> "idle"]

(***************************************************************************)
(* auto_fix_validation_issues_with_llm, core.py 432-670.                   *)
(***************************************************************************)
InitLoop ==
    /\ pc = "start"
    /\ \/ max_iterations_arg \in {<<n>> : n \in 0..MaxBudget} /\ setting = Unset
       \/ max_iterations_arg = None /\ setting \in LoopSettings
    /\ max_iterations = 0
    /\ iteration = 0
    /\ current_code = JavaCode
    /\ validation_result \in InitialReports
    /\ best_iteration = NoBest
    /\ returned = NotReturned
    /\ history = <<>>
    /\ gen_calls = 0
    /\ val_calls = 0
    /\ gen_threw_at = 0
    /\ val_outcome = "none"

Init ==
    /\ InitLoop
    /\ cov = IdleCov
    /\ ver = IdleVer
    /\ place = IdlePlace
    /\ batch = IdleBatch
    /\ imp = IdleImp
    /\ filt = IdleFilt
    /\ req = IdleReq
    /\ gen = IdleGen
    /\ ana = IdleAna
    /\ unit = IdleUnit

\* lines 451-485: the budget, the first record, the initial score.  len()
\* of a null collection raises at line 482 and the handler of lines
\* 668-670 returns the original code.
Start ==
    /\ pc = "start"
    /\ max_iterations' = EffectiveMaxIterations(max_iterations_arg, setting)
    /\ IF validation_result.shape = "null_collection"
       THEN /\ returned' = JavaCode
            /\ pc' = "done"
            /\ UNCHANGED <<best_iteration, history>>
       ELSE /\ best_iteration' =
                  [code |-> JavaCode, validation_result |-> validation_result,
                   iteration_number |-> 0,
                   total_issues |-> calculate_total_issues(validation_result)]
            /\ history' = <<[code |-> JavaCode,
                             score |-> calculate_total_issues(validation_result)]>>
            /\ pc' = "extract"
            /\ UNCHANGED returned
    /\ UNCHANGED <<max_iterations_arg, setting, iteration, current_code,
                   validation_result, gen_calls, val_calls, gen_threw_at,
                   val_outcome,
                   cov, ver, place, batch, imp, filt, req, gen, ana, unit>>

\* lines 487-539: the loop test, then the issue list of this iteration.
\* A non-mapping entry raises out of the loop to the handler of lines
\* 668-670, which returns the original code.
ExtractIssues ==
    /\ pc = "extract"
    /\ IF ~LoopContinues(iteration, max_iterations)
       THEN /\ pc' = "finish"
            /\ UNCHANGED <<iteration, returned>>
       ELSE /\ iteration' = iteration + 1
            /\ IF validation_result.shape = "non_dict_entry"
               THEN /\ returned' = JavaCode
                    /\ pc' = "done"
               ELSE /\ returned' = returned
                    /\ pc' = IF AllIssuesCount(validation_result) = 0
                             THEN "finish" ELSE "generate"
    /\ UNCHANGED <<max_iterations_arg, setting, max_iterations, current_code,
                   validation_result, best_iteration, history, gen_calls,
                   val_calls, gen_threw_at, val_outcome,
                   cov, ver, place, batch, imp, filt, req, gen, ana, unit>>

\* lines 582-603: the generator call; an exception breaks the loop (640-642)
Generate ==
    /\ pc = "generate"
    /\ gen_calls' = gen_calls + 1
    /\ \E threw \in BOOLEAN :
          IF threw
          THEN /\ gen_threw_at' = iteration
               /\ pc' = "finish"
               /\ UNCHANGED current_code
          ELSE /\ current_code' = iteration
               /\ pc' = "revalidate"
               /\ UNCHANGED gen_threw_at
    /\ UNCHANGED <<max_iterations_arg, setting, max_iterations, iteration,
                   validation_result, best_iteration, returned, history,
                   val_calls, val_outcome,
                   cov, ver, place, batch, imp, filt, req, gen, ana, unit>>

\* lines 605-607: the validator call
Revalidate ==
    /\ pc = "revalidate"
    /\ val_calls' = val_calls + 1
    /\ \E outcome \in ValidatorOutcomes :
          /\ validation_result' = validate_java_imports_and_compilation(outcome)
          /\ val_outcome' = outcome.kind
    /\ pc' = "score"
    /\ UNCHANGED <<max_iterations_arg, setting, max_iterations, iteration,
                   current_code, best_iteration, returned, history, gen_calls,
                   gen_threw_at, cov, ver, place, batch, imp, filt, req, gen, ana, unit>>

\* lines 609-642: score, compare to the best, decide whether to go on.
\* len() of a null collection raises inside the try: the loop breaks.
ScoreAndCompare ==
    /\ pc = "score"
    /\ IF validation_result.shape = "null_collection"
       THEN /\ pc' = "finish"
            /\ UNCHANGED <<best_iteration, history>>
       ELSE LET current_issues == calculate_total_issues(validation_result)
            IN  /\ best_iteration' =
                      IF IsImprovement(current_issues, best_iteration)
                      THEN [code |-> current_code,
                            validation_result |-> validation_result,
                            iteration_number |-> iteration,
                            total_issues |-> current_issues]
                      ELSE best_iteration
                /\ history' = Append(history, [code |-> current_code,
                                               score |-> current_issues])
                /\ pc' = IF StopAfterRevalidation(validation_result)
                         THEN "finish" ELSE "extract"
    /\ UNCHANGED <<max_iterations_arg, setting, max_iterations, iteration,
                   current_code, validation_result, returned, gen_calls,
                   val_calls, gen_threw_at, val_outcome,
                   cov, ver, place, batch, imp, filt, req, gen, ana, unit>>

\* lines 644-666
Finish ==
    /\ pc = "finish"
    /\ returned' = ReturnValue(best_iteration, JavaCode)
    /\ pc' = "done"
    /\ UNCHANGED <<max_iterations_arg, setting, max_iterations, iteration,
                   current_code, validation_result, best_iteration, history,
                   gen_calls, val_calls, gen_threw_at, val_outcome,
                   cov, ver, place, batch, imp, filt, req, gen, ana, unit>>

Next ==
    \/ Start
    \/ ExtractIssues
    \/ Generate
    \/ Revalidate
    \/ ScoreAndCompare
    \/ Finish

Spec == Init /\ [][Next]_vars

\* the loop is one coroutine awaited to completion: each step is taken
LiveSpec == Init /\ [][Next]_vars /\ WF_vars(Next)

(***************************************************************************)
(* The budget alone: every MAX_ITERATIONS string up to MaxSettingLen       *)
(* characters, every argument around the clamp's range, and a report       *)
(* without issues, so that the loop ends at its first test.                *)
(***************************************************************************)
MaxSettingLen == 3
MaxArgument == 12

SettingChars == {"0", "1", "2", "9"} \cup {"-", "+", " ", "_", "x"}

Settings ==
    {Unset} \cup {SetTo(s) : s \in SeqsUpTo(SettingChars, MaxSettingLen)}

Arguments == {<<n>> : n \in (0 - 1)..MaxArgument}

InitBudget ==
    /\ pc = "start"
    /\ \/ max_iterations_arg = None /\ setting \in Settings
       \/ max_iterations_arg \in Arguments /\ setting \in {Unset, SetTo(<<"2">>)}
    /\ max_iterations = 0
    /\ iteration = 0
    /\ current_code = JavaCode
    /\ validation_result = Report("FAIL", 0, 0, 0, 0, "ok")
    /\ best_iteration = NoBest
    /\ returned = NotReturned
    /\ history = <<>>
    /\ gen_calls = 0
    /\ val_calls = 0
    /\ gen_threw_at = 0
    /\ val_outcome = "none"
    /\ cov = IdleCov
    /\ ver = IdleVer
    /\ place = IdlePlace
    /\ batch = IdleBatch
    /\ imp = IdleImp
    /\ filt = IdleFilt
    /\ req = IdleReq
    /\ gen = IdleGen
    /\ ana = IdleAna
    /\ unit = IdleUnit

NextBudget ==
    \/ Start
    \/ ExtractIssues
    \/ Finish

SpecBudget == InitBudget /\ [][NextBudget]_vars

(***************************************************************************)
(* Claims about the repair loop.                                           *)
(***************************************************************************)
\* the earliest record of the lowest score
BestIndex(h) ==
    CHOOSE i \in 1..Len(h) :
        /\ \A j \in 1..Len(h) : h[i].score <= h[j].score
        /\ \A j \in 1..(i - 1) : h[j].score > h[i].score

\* C1: however the loop ends, the record of the returned code scores no
\* more than the record of the initial input.
C1_ScoreNonRegression ==
    pc = "done" =>
        \E i \in 1..Len(history) :
            /\ history[i].code = returned
            /\ history[i].score <= history[1].score

\* C1 witness: the last iteration scored worse than the input, an earlier
\* one better, and the earlier one is returned.
C1_Witness ==
    /\ pc = "done"
    /\ Len(history) = 3
    /\ history[3].score > history[1].score
    /\ history[2].score < history[1].score
    /\ returned = history[2].code

\* C2: the loop returns the code of the earliest lowest-scoring record
\* among the input and all scored iterations.
C2_ReturnsEarliestLowest ==
    pc = "done" => returned = history[BestIndex(history)].code

\* C3: the loop reaches Done, after at most max_iterations generator calls
\* and at most max_iterations validator calls.
C3_TerminatesWithinBudget ==
    /\ <>(pc = "done")
    /\ [](pc # "start" => gen_calls <= max_iterations /\ val_calls <= max_iterations)

\* C3 witness: the budget is used up: a run of two or more iterations ends
\* with as many generator and validator calls as the budget allows.
C3_Witness ==
    /\ pc = "done"
    /\ max_iterations >= 2
    /\ gen_calls = max_iterations
    /\ val_calls = max_iterations

\* C4: once a revalidation has reported PASS, or no critical issue, missing
\* import or compilation error, no generator call follows; and an iteration
\* that starts on an empty issue list ends the loop without a generator
\* call.
C4_NoGenerateAfterStop ==
    [][/\ ( /\ val_calls >= 1
            /\ \/ validation_result.validation_status = "PASS"
               \/ /\ validation_result.shape = "ok"
                  /\ validation_result.critical_issues = 0
                  /\ validation_result.missing_imports = 0
                  /\ validation_result.compilation_errors = 0 )
          => gen_calls' = gen_calls
       /\ ( /\ pc = "extract"
            /\ iteration < max_iterations
            /\ validation_result.shape = "ok"
            /\ validation_result.critical_issues + validation_result.missing_imports
                 + validation_result.compilation_errors
                 + validation_result.unused_imports = 0 )
          => (gen_calls' = gen_calls /\ pc' = "finish")
      ]_vars

\* C4 witness: a revalidation left only an unused import under a status
\* other than PASS, and the loop ended with budget to spare.
C4_Witness ==
    /\ pc = "done"
    /\ val_calls >= 1
    /\ validation_result.validation_status # "PASS"
    /\ MajorsZero(validation_result)
    /\ validation_result.unused_imports > 0
    /\ iteration < max_iterations
    /\ gen_calls = iteration

\* C5: when the generator call of iteration k throws, it is the last
\* external call, the records held are those of iterations 0..k-1, and the
\* code of the best of them is returned (the input only when record 0 is
\* that best).
C5_GeneratorThrow ==
    gen_threw_at > 0 =>
        /\ gen_calls = gen_threw_at
        /\ val_calls = gen_threw_at - 1
        /\ Len(history) = gen_threw_at
        /\ pc = "done" =>
              /\ returned = history[BestIndex(history)].code
              /\ returned = JavaCode => BestIndex(history) = 1

\* C5 witness: the generator threw in iteration 2 and the code of
\* iteration 1 is returned.
C5_Witness ==
    /\ pc = "done"
    /\ gen_threw_at = 2
    /\ returned = 1

\* C6 as stated: the budget in force always lies in 1..10.
C6_BudgetAlwaysClamped ==
    pc # "start" => max_iterations \in 1..10

\* C6 amended: a budget read from MAX_ITERATIONS lies in 1..10 (below 1
\* gives 1, above 10 gives 10, missing or unparsable gives 3); a
\* max_iterations argument is used as passed.
C6_BudgetFromSetting ==
    pc # "start" =>
        IF max_iterations_arg = None
        THEN LET p == ParseInt(setting.value)
                 parsed == setting.set /\ p.ok
             IN  /\ max_iterations \in 1..10
                 /\ ~parsed => max_iterations = 3
                 /\ (parsed /\ p.value < 1) => max_iterations = 1
                 /\ (parsed /\ p.value > 10) => max_iterations = 10
                 /\ (parsed /\ p.value \in 1..10) => max_iterations = p.value
        ELSE max_iterations = max_iterations_arg[1]

\* C6 witness: MAX_ITERATIONS parses to more than 10 and the budget is 10.
C6_Witness ==
    /\ pc = "done"
    /\ max_iterations_arg = None
    /\ setting.set
    /\ ParseInt(setting.value).ok
    /\ ParseInt(setting.value).value > 10
    /\ max_iterations = 10

(***************************************************************************)
(* Coverage reconciliation: extract_test_methods_from_file (core.py        *)
(* 2294-2350) and get_uncovered_methods (core.py 2352-2439).               *)
(* Names are sequences of characters.  A test file is modelled by what the *)
(* two regular expressions of lines 2311 and 2325 match in it, in order;   *)
(* a file that cannot be read yields no name (lines 2348-2350).            *)
(***************************************************************************)
\* A character is a code point: a printable ASCII character is written as
\* itself (the grave accent as "U+0060"), any other code point as "U+" and
\* its four hexadecimal digits ("U+0130" is the capital I with a dot above,
\* "U+03A3" the capital sigma).  The letters of the model are those of
\* ASCII, of Latin-1, of Latin Extended-A, of Greek and of Cyrillic (U+0400
\* to U+045F).

\* the lower-case letter of every upper-case ASCII letter
LowerLetters ==
    [A |-> "a", B |-> "b", C |-> "c", D |-> "d", E |-> "e", F |-> "f",
     G |-> "g", H |-> "h", I |-> "i", J |-> "j", K |-> "k", L |-> "l",
     M |-> "m", N |-> "n", O |-> "o", P |-> "p", Q |-> "q", R |-> "r",
     S |-> "s", T |-> "t", U |-> "u", V |-> "v", W |-> "w", X |-> "x",
     Y |-> "y", Z |-> "z"]

\* the lower-case code point of every other letter that has one code point
\* as its lower case (the capital sigma is handled by its context)
LowerCodePoints ==
    ("U+00C0" :> "U+00E0") @@ ("U+00C1" :> "U+00E1") @@ ("U+00C2" :> "U+00E2") @@
    ("U+00C3" :> "U+00E3") @@ ("U+00C4" :> "U+00E4") @@ ("U+00C5" :> "U+00E5") @@
    ("U+00C6" :> "U+00E6") @@ ("U+00C7" :> "U+00E7") @@ ("U+00C8" :> "U+00E8") @@
    ("U+00C9" :> "U+00E9") @@ ("U+00CA" :> "U+00EA") @@ ("U+00CB" :> "U+00EB") @@
    ("U+00CC" :> "U+00EC") @@ ("U+00CD" :> "U+00ED") @@ ("U+00CE" :> "U+00EE") @@
    ("U+00CF" :> "U+00EF") @@ ("U+00D0" :> "U+00F0") @@ ("U+00D1" :> "U+00F1") @@
    ("U+00D2" :> "U+00F2") @@ ("U+00D3" :> "U+00F3") @@ ("U+00D4" :> "U+00F4") @@
    ("U+00D5" :> "U+00F5") @@ ("U+00D6" :> "U+00F6") @@ ("U+00D8" :> "U+00F8") @@
    ("U+00D9" :> "U+00F9") @@ ("U+00DA" :> "U+00FA") @@ ("U+00DB" :> "U+00FB") @@
    ("U+00DC" :> "U+00FC") @@ ("U+00DD" :> "U+00FD") @@ ("U+00DE" :> "U+00FE") @@
    ("U+0100" :> "U+0101") @@ ("U+0102" :> "U+0103") @@ ("U+0104" :> "U+0105") @@
    ("U+0106" :> "U+0107") @@ ("U+0108" :> "U+0109") @@ ("U+010A" :> "U+010B") @@
    ("U+010C" :> "U+010D") @@ ("U+010E" :> "U+010F") @@ ("U+0110" :> "U+0111") @@
    ("U+0112" :> "U+0113") @@ ("U+0114" :> "U+0115") @@ ("U+0116" :> "U+0117") @@
    ("U+0118" :> "U+0119") @@ ("U+011A" :> "U+011B") @@ ("U+011C" :> "U+011D") @@
    ("U+011E" :> "U+011F") @@ ("U+0120" :> "U+0121") @@ ("U+0122" :> "U+0123") @@
    ("U+0124" :> "U+0125") @@ ("U+0126" :> "U+0127") @@ ("U+0128" :> "U+0129") @@
    ("U+012A" :> "U+012B") @@ ("U+012C" :> "U+012D") @@ ("U+012E" :> "U+012F") @@
    ("U+0132" :> "U+0133") @@ ("U+0134" :> "U+0135") @@ ("U+0136" :> "U+0137") @@
    ("U+0139" :> "U+013A") @@ ("U+013B" :> "U+013C") @@ ("U+013D" :> "U+013E") @@
    ("U+013F" :> "U+0140") @@ ("U+0141" :> "U+0142") @@ ("U+0143" :> "U+0144") @@
    ("U+0145" :> "U+0146") @@ ("U+0147" :> "U+0148") @@ ("U+014A" :> "U+014B") @@
    ("U+014C" :> "U+014D") @@ ("U+014E" :> "U+014F") @@ ("U+0150" :> "U+0151") @@
    ("U+0152" :> "U+0153") @@ ("U+0154" :> "U+0155") @@ ("U+0156" :> "U+0157") @@
    ("U+0158" :> "U+0159") @@ ("U+015A" :> "U+015B") @@ ("U+015C" :> "U+015D") @@
    ("U+015E" :> "U+015F") @@ ("U+0160" :> "U+0161") @@ ("U+0162" :> "U+0163") @@
    ("U+0164" :> "U+0165") @@ ("U+0166" :> "U+0167") @@ ("U+0168" :> "U+0169") @@
    ("U+016A" :> "U+016B") @@ ("U+016C" :> "U+016D") @@ ("U+016E" :> "U+016F") @@
    ("U+0170" :> "U+0171") @@ ("U+0172" :> "U+0173") @@ ("U+0174" :> "U+0175") @@
    ("U+0176" :> "U+0177") @@ ("U+0178" :> "U+00FF") @@ ("U+0179" :> "U+017A") @@
    ("U+017B" :> "U+017C") @@ ("U+017D" :> "U+017E") @@ ("U+0370" :> "U+0371") @@
    ("U+0372" :> "U+0373") @@ ("U+0376" :> "U+0377") @@ ("U+037F" :> "U+03F3") @@
    ("U+0386" :> "U+03AC") @@ ("U+0388" :> "U+03AD") @@ ("U+0389" :> "U+03AE") @@
    ("U+038A" :> "U+03AF") @@ ("U+038C" :> "U+03CC") @@ ("U+038E" :> "U+03CD") @@
    ("U+038F" :> "U+03CE") @@ ("U+0391" :> "U+03B1") @@ ("U+0392" :> "U+03B2") @@
    ("U+0393" :> "U+03B3") @@ ("U+0394" :> "U+03B4") @@ ("U+0395" :> "U+03B5") @@
    ("U+0396" :> "U+03B6") @@ ("U+0397" :> "U+03B7") @@ ("U+0398" :> "U+03B8") @@
    ("U+0399" :> "U+03B9") @@ ("U+039A" :> "U+03BA") @@ ("U+039B" :> "U+03BB") @@
    ("U+039C" :> "U+03BC") @@ ("U+039D" :> "U+03BD") @@ ("U+039E" :> "U+03BE") @@
    ("U+039F" :> "U+03BF") @@ ("U+03A0" :> "U+03C0") @@ ("U+03A1" :> "U+03C1") @@
    ("U+03A4" :> "U+03C4") @@ ("U+03A5" :> "U+03C5") @@ ("U+03A6" :> "U+03C6") @@
    ("U+03A7" :> "U+03C7") @@ ("U+03A8" :> "U+03C8") @@ ("U+03A9" :> "U+03C9") @@
    ("U+03AA" :> "U+03CA") @@ ("U+03AB" :> "U+03CB") @@ ("U+03CF" :> "U+03D7") @@
    ("U+03D8" :> "U+03D9") @@ ("U+03DA" :> "U+03DB") @@ ("U+03DC" :> "U+03DD") @@
    ("U+03DE" :> "U+03DF") @@ ("U+03E0" :> "U+03E1") @@ ("U+03E2" :> "U+03E3") @@
    ("U+03E4" :> "U+03E5") @@ ("U+03E6" :> "U+03E7") @@ ("U+03E8" :> "U+03E9") @@
    ("U+03EA" :> "U+03EB") @@ ("U+03EC" :> "U+03ED") @@ ("U+03EE" :> "U+03EF") @@
    ("U+03F4" :> "U+03B8") @@ ("U+03F7" :> "U+03F8") @@ ("U+03F9" :> "U+03F2") @@
    ("U+03FA" :> "U+03FB") @@ ("U+03FD" :> "U+037B") @@ ("U+03FE" :> "U+037C") @@
    ("U+03FF" :> "U+037D") @@ ("U+0400" :> "U+0450") @@ ("U+0401" :> "U+0451") @@
    ("U+0402" :> "U+0452") @@ ("U+0403" :> "U+0453") @@ ("U+0404" :> "U+0454") @@
    ("U+0405" :> "U+0455") @@ ("U+0406" :> "U+0456") @@ ("U+0407" :> "U+0457") @@
    ("U+0408" :> "U+0458") @@ ("U+0409" :> "U+0459") @@ ("U+040A" :> "U+045A") @@
    ("U+040B" :> "U+045B") @@ ("U+040C" :> "U+045C") @@ ("U+040D" :> "U+045D") @@
    ("U+040E" :> "U+045E") @@ ("U+040F" :> "U+045F") @@ ("U+0410" :> "U+0430") @@
    ("U+0411" :> "U+0431") @@ ("U+0412" :> "U+0432") @@ ("U+0413" :> "U+0433") @@
    ("U+0414" :> "U+0434") @@ ("U+0415" :> "U+0435") @@ ("U+0416" :> "U+0436") @@
    ("U+0417" :> "U+0437") @@ ("U+0418" :> "U+0438") @@ ("U+0419" :> "U+0439") @@
    ("U+041A" :> "U+043A") @@ ("U+041B" :> "U+043B") @@ ("U+041C" :> "U+043C") @@
    ("U+041D" :> "U+043D") @@ ("U+041E" :> "U+043E") @@ ("U+041F" :> "U+043F") @@
    ("U+0420" :> "U+0440") @@ ("U+0421" :> "U+0441") @@ ("U+0422" :> "U+0442") @@
    ("U+0423" :> "U+0443") @@ ("U+0424" :> "U+0444") @@ ("U+0425" :> "U+0445") @@
    ("U+0426" :> "U+0446") @@ ("U+0427" :> "U+0447") @@ ("U+0428" :> "U+0448") @@
    ("U+0429" :> "U+0449") @@ ("U+042A" :> "U+044A") @@ ("U+042B" :> "U+044B") @@
    ("U+042C" :> "U+044C") @@ ("U+042D" :> "U+044D") @@ ("U+042E" :> "U+044E") @@
    ("U+042F" :> "U+044F")

UpperCodePoints == DOMAIN LowerCodePoints
UpperLetters == DOMAIN LowerLetters

CapitalSigma == "U+03A3"
SmallSigma == "U+03C3"
FinalSigma == "U+03C2"
CapitalIWithDot == "U+0130"
CombiningDot == "U+0307"

\* the code points str.lower() passes over when it looks for the
\* neighbours of a capital sigma
CaseIgnorable ==
    {"'", ".", ":", "^", "U+0060", "U+00A8", "U+00AD", "U+00AF",
     "U+00B4", "U+00B7", "U+00B8", "U+0374", "U+0375", "U+037A", "U+0384", "U+0385",
     "U+0387", "U+0307"}

\* the letters that have no case mapping of their own in the tables above
OtherCased ==
    {"U+00AA", "U+00B5", "U+00BA", "U+00DF", "U+0131", "U+0138", "U+0149", "U+017F",
     "U+0390", "U+03B0", "U+03C2", "U+03D0", "U+03D1", "U+03D2", "U+03D3", "U+03D4",
     "U+03D5", "U+03D6", "U+03F0", "U+03F1", "U+03F5", "U+03FC"}

IsCaseIgnorable(c) == c \in CaseIgnorable

\* a letter with a case, as far as str.lower() asks: the character is not
\* one it passes over
CasedCharacters ==
    UpperLetters \cup {LowerLetters[u] : u \in UpperLetters}
        \cup UpperCodePoints \cup {LowerCodePoints[u] : u \in UpperCodePoints}
        \cup {CapitalSigma, SmallSigma, CapitalIWithDot}
        \cup OtherCased

IsCased(c) == c \in CasedCharacters

\* the lower case of a code point whose lower case is one code point
LowerChar(c) ==
    IF c \in UpperLetters THEN LowerLetters[c]
    ELSE IF c \in UpperCodePoints THEN LowerCodePoints[c]
    ELSE c

\* the capital sigma at position i stands at the end of a word: the nearest
\* character before it that is not passed over is a cased letter, and the
\* nearest such character after it, if any, is not
IsFinalSigma(s, i) ==
    /\ \E j \in 1..(i - 1) :
          /\ IsCased(s[j]) /\ ~IsCaseIgnorable(s[j])
          /\ \A k \in (j + 1)..(i - 1) : IsCaseIgnorable(s[k])
    /\ ~\E j \in (i + 1)..Len(s) :
          /\ IsCased(s[j]) /\ ~IsCaseIgnorable(s[j])
          /\ \A k \in (i + 1)..(j - 1) : IsCaseIgnorable(s[k])

\* the lower case of the character at position i: one code point, or two
\* for the capital I with a dot above
LowerAt(s, i) ==
    IF s[i] = CapitalSigma
    THEN <<IF IsFinalSigma(s, i) THEN FinalSigma ELSE SmallSigma>>
    ELSE IF s[i] = CapitalIWithDot THEN <<"i", CombiningDot>>
    ELSE <<LowerChar(s[i])>>

RECURSIVE LowerFrom(_, _)
LowerFrom(s, i) ==
    IF i > Len(s) THEN <<>> ELSE LowerAt(s, i) \o LowerFrom(s, i + 1)

\* str.lower(): the result can be longer than the string (capital I with a
\* dot above) and depends on the neighbours (capital sigma); a string that
\* holds neither is lower-cased character by character
LowerSeq(s) ==
    IF \A i \in 1..Len(s) : s[i] \notin {CapitalSigma, CapitalIWithDot}
    THEN [i \in 1..Len(s) |-> LowerChar(s[i])]
    ELSE LowerFrom(s, 1)

\* str.startswith / str.endswith
StartsWith(s, p) == Len(s) >= Len(p) /\ SubSeq(s, 1, Len(p)) = p
EndsWith(s, p) == Len(s) >= Len(p) /\ SubSeq(s, Len(s) - Len(p) + 1, Len(s)) = p

\* p in s
IsSubstring(p, s) ==
    \E i \in 0..(Len(s) - Len(p)) : SubSeq(s, i + 1, i + Len(p)) = p

\* s.replace('_', '').replace('-', '')
Clean(s) == SelectSeq(s, LAMBDA c : c \notin {"_", "-"})

TestWord == <<"t", "e", "s", "t">>

RECURSIVE Dedupe(_, _)
\* lines 2338-2344: duplicates removed, order kept
Dedupe(names, seen) ==
    IF names = <<>> THEN <<>>
    ELSE IF Head(names) \in seen THEN Dedupe(Tail(names), seen)
    ELSE <<Head(names)>> \o Dedupe(Tail(names), seen \cup {Head(names)})

\* lines 2303-2350
extract_test_methods_from_file(file) ==
    IF ~file.readable THEN <<>>
    ELSE Dedupe(SelectSeq(file.matches, LAMBDA n : IsSubstring(TestWord, LowerSeq(n))), {})

RECURSIVE AllTestMethods(_)
\* lines 2365-2369
AllTestMethods(files) ==
    IF files = <<>> THEN <<>>
    ELSE extract_test_methods_from_file(Head(files)) \o AllTestMethods(Tail(files))

\* lines 2373-2381, for one test name
NameVariations(test_method) ==
    LET l == LowerSeq(test_method)
    IN  {l}
          \cup (IF StartsWith(l, TestWord) THEN {SubSeq(l, 5, Len(l))} ELSE {})
          \cup (IF EndsWith(l, TestWord) THEN {SubSeq(l, 1, Len(l) - 4)} ELSE {})

\* lines 2372-2381
test_method_variations(all_test_methods) ==
    UNION {NameVariations(all_test_methods[i]) : i \in 1..Len(all_test_methods)}

\* len(a) / len(b) >= 0.5 (line 2426): exact in integers
RatioAtLeast50(a, b) == 2 * a >= b

\* len(a) / len(b) >= 0.4 (lines 2407, 2414).  The quotient of two small
\* integers is compared with the double 0.4: a/b rounds to that same
\* double exactly when 5a = 2b, so the integer comparison is exact.
RatioAtLeast40(a, b) == 5 * a >= 2 * b

\* line 2396
LongEnough(method_name, test_variation) ==
    ~(Len(method_name) < 3 \/ Len(test_variation) < 3)

\* lines 2396-2429, for one variation: TRUE when the loop body sets
\* is_covered
Matches(method_name, test_variation) ==
    /\ LongEnough(method_name, test_variation)
    /\ \/ method_name = test_variation
       \/ /\ Len(method_name) >= 4
          /\ IsSubstring(method_name, test_variation)
          /\ RatioAtLeast40(Len(method_name), Len(test_variation))
       \/ /\ Len(test_variation) >= 4
          /\ IsSubstring(test_variation, method_name)
          /\ RatioAtLeast40(Len(test_variation), Len(method_name))
       \/ LET method_clean == Clean(method_name)
              test_clean == Clean(test_variation)
          IN  /\ Len(method_clean) >= 4
              /\ Len(test_clean) >= 4
              /\ \/ /\ IsSubstring(method_clean, test_clean)
                    /\ RatioAtLeast50(Len(method_clean), Len(test_clean))
                 \/ /\ IsSubstring(test_clean, method_clean)
                    /\ RatioAtLeast50(Len(test_clean), Len(method_clean))

\* a mutant of is_covered: every variation has to match
is_covered_by_all(method_name, variations) ==
    \A v \in variations : Matches(method_name, v)

\* lines 2391-2429: the loop over the variations stops at the first match
is_covered(method_name, variations) ==
    \E v \in variations : Matches(method_name, v)

\* lines 2352-2439; a method is its name
get_uncovered_methods(class_methods, existing_test_files) ==
    IF existing_test_files = <<>> THEN class_methods
    ELSE LET variations == test_method_variations(AllTestMethods(existing_test_files))
         IN  SelectSeq(class_methods, LAMBDA m : ~is_covered(LowerSeq(m), variations))

(***************************************************************************)
(* Inputs of the reconciliation: names built from a stem and a run of      *)
(* filler characters, so that one name can contain another at every length *)
(* ratio around the 40% and 50% thresholds; test names carry "test" in     *)
(* front, "Test" behind, both or neither.  Some stems hold letters outside *)
(* ASCII, which Java and \w+ admit in a name: two capital I with a dot     *)
(* above, a capital sigma before a digit, a capital A with a diaeresis.    *)
(***************************************************************************)
MaxPad == 10
MaxWidePad == 3

Stems ==
    {<<>>, <<"a">>, <<"a", "B">>, <<"a", "_", "B">>, <<"B", "a">>}

WideStems ==
    {<<CapitalIWithDot, CapitalIWithDot>>, <<CapitalSigma, "1">>, <<"U+00C4", "n">>}

RECURSIVE Fill(_)
Fill(k) == IF k = 0 THEN <<>> ELSE <<"x">> \o Fill(k - 1)

\* names are \w+ captures: letters, digits and underscores, never empty
MethodNames == {s \o Fill(k) : s \in Stems, k \in 0..MaxPad} \ {<<>>}

WideMethodNames == {s \o Fill(k) : s \in WideStems, k \in 0..MaxWidePad}

Prefixes == {<<>>, <<"t", "e", "s", "t">>, <<"T", "e", "s", "t">>}
Suffixes == {<<>>, <<"T", "e", "s", "t">>}

MatchedNames ==
    {p \o s \o Fill(k) \o q : p \in Prefixes, s \in Stems,
                              k \in 0..MaxPad, q \in Suffixes}

WideMatchedNames ==
    {p \o s \o Fill(k) \o q : p \in Prefixes, s \in WideStems,
                              k \in 0..MaxWidePad, q \in Suffixes}

Create == <<"c", "r", "e", "a", "t", "e">>
Delete == <<"d", "e", "l", "e", "t", "e">>
TestCreate == <<"t", "e", "s", "t", "C", "r", "e", "a", "t", "e">>
DeleteTest == Delete \o <<"T", "e", "s", "t">>

File(matches) == [readable |-> TRUE, matches |-> matches]
UnreadableFile == [readable |-> FALSE, matches |-> <<TestCreate>>]

CoverageInputs ==
    {[class_methods |-> <<m>>, existing_test_files |-> <<File(<<t>>)>>] :
        m \in MethodNames, t \in MatchedNames}
      \cup {[class_methods |-> <<m>>, existing_test_files |-> <<File(<<t>>)>>] :
               m \in WideMethodNames, t \in WideMatchedNames}
      \cup {[class_methods |-> <<m, Delete>>,
             existing_test_files |-> <<File(<<t, t>>), File(<<TestCreate>>)>>] :
               m \in {Create, <<"a", "B">>}, t \in MatchedNames}
      \cup {[class_methods |-> <<Create, Delete>>, existing_test_files |-> fs] :
               fs \in {<<>>, <<File(<<>>)>>, <<UnreadableFile>>, <<File(<<TestCreate>>)>>}}

InitCoverage ==
    /\ \E in \in CoverageInputs :
          cov = [pc |-> "ready", class_methods |-> in.class_methods,
                 existing_test_files |-> in.existing_test_files, uncovered |-> <<>>]
    /\ pc = "idle"
    /\ max_iterations_arg = None
    /\ setting = Unset
    /\ max_iterations = 0
    /\ iteration = 0
    /\ current_code = JavaCode
    /\ validation_result = WarningReport
    /\ best_iteration = NoBest
    /\ returned = NotReturned
    /\ history = <<>>
    /\ gen_calls = 0
    /\ val_calls = 0
    /\ gen_threw_at = 0
    /\ val_outcome = "none"
    /\ ver = IdleVer
    /\ place = IdlePlace
    /\ batch = IdleBatch
    /\ imp = IdleImp
    /\ filt = IdleFilt
    /\ req = IdleReq
    /\ gen = IdleGen
    /\ ana = IdleAna
    /\ unit = IdleUnit

GetUncoveredMethods ==
    /\ cov.pc = "ready"
    /\ cov' = [cov EXCEPT !.pc = "done",
                          !.uncovered = get_uncovered_methods(cov.class_methods,
                                                              cov.existing_test_files)]
    /\ UNCHANGED <<loopVars, ver, place, batch, imp, filt, req, gen, ana, unit>>

NextCoverage == GetUncoveredMethods

SpecCoverage == InitCoverage /\ [][NextCoverage]_vars

(***************************************************************************)
(* Claims about coverage reconciliation.                                   *)
(***************************************************************************)
Range(q) == {q[i] : i \in 1..Len(q)}

ExtractedNames == Range(AllTestMethods(cov.existing_test_files))

\* the form under which two names that differ in case only are the same:
\* lower-cased, the sigma at the end of a word written as any other sigma
IgnoringCase(s) ==
    LET l == LowerSeq(s)
    IN  [i \in 1..Len(l) |-> IF l[i] = FinalSigma THEN SmallSigma ELSE l[i]]

\* the name variations as the specification words them
VariationsOf(names) ==
    {LowerSeq(t) : t \in names}
        \cup {SubSeq(LowerSeq(t), 5, Len(LowerSeq(t))) :
                 t \in {n \in names : StartsWith(LowerSeq(n), TestWord)}}
        \cup {SubSeq(LowerSeq(t), 1, Len(LowerSeq(t)) - 4) :
                 t \in {n \in names : EndsWith(LowerSeq(n), TestWord)}}

\* C7: a candidate m, not empty, is covered whenever a test named
\* "test" + m (ignoring case) is among the extracted test names.
C7_TestPrefixCovers ==
    cov.pc = "done" =>
        \A m \in Range(cov.class_methods) :
            (/\ m # <<>>
             /\ \E t \in ExtractedNames :
                   IgnoringCase(t) = IgnoringCase(TestWord \o m))
                => m \notin Range(cov.uncovered)

\* C8: a candidate shorter than three characters is matched by no
\* containment and no fuzzy rule: it is covered exactly when a name
\* variation equals it (ignoring case).
C8_ShortNamesExactOnly ==
    cov.pc = "done" =>
        \A m \in Range(cov.class_methods) :
            Len(m) < 3 =>
                (m \notin Range(cov.uncovered)
                    <=> \E v \in VariationsOf(ExtractedNames) :
                           IgnoringCase(m) = IgnoringCase(v))

\* the four rules as C9 words them, on names taken ignoring case
RuleAsStated(m, v) ==
    \/ m = v
    \/ IsSubstring(m, v) /\ 100 * Len(m) >= 40 * Len(v)
    \/ IsSubstring(v, m) /\ 100 * Len(v) >= 40 * Len(m)
    \/ LET mc == Clean(m)
           vc == Clean(v)
       IN  \/ IsSubstring(mc, vc) /\ 100 * Len(mc) >= 50 * Len(vc)
           \/ IsSubstring(vc, mc) /\ 100 * Len(vc) >= 50 * Len(mc)

ScenarioInput ==
    /\ cov.class_methods = <<Create, Delete>>
    /\ cov.existing_test_files = <<File(<<TestCreate>>)>>

\* C9: the result is the candidates that no name variation matches,
\* ignoring case, by equality, 40% containment either way, or 50%
\* containment after removing underscores and hyphens; for {create, delete}
\* and testCreate the result is delete alone.
C9_UncoveredAsStated ==
    cov.pc = "done" =>
        /\ cov.uncovered =
              SelectSeq(cov.class_methods,
                        LAMBDA m : ~\E v \in VariationsOf(ExtractedNames) :
                                        RuleAsStated(IgnoringCase(m), IgnoringCase(v)))
        /\ ScenarioInput => cov.uncovered = <<Delete>>

(***************************************************************************)
(* Numbered test files: find_existing_test_files (core.py 2254-2292) and   *)
(* get_next_test_file_name (core.py 2441-2466).  The files of one unit in  *)
(* the output directory are known by their numbers: 1 is the primary file  *)
(* <Class>Test.java, n >= 2 the file <Class>Test<n>.java.                  *)
(***************************************************************************)
ScanLimit == 50
PrimaryFile == 1

RECURSIVE ScanNumbered(_, _)
\* lines 2283-2290
ScanNumbered(files, counter) ==
    IF counter <= ScanLimit /\ counter \in files
    THEN <<counter>> \o ScanNumbered(files, counter + 1)
    ELSE <<>>

\* lines 2263-2292
find_existing_test_files(files) ==
    IF PrimaryFile \notin files THEN <<>>
    ELSE <<PrimaryFile>> \o ScanNumbered(files, 2)

\* lines 2451-2466
get_next_test_file_name(existing_files) ==
    IF existing_files = <<>> THEN PrimaryFile
    ELSE Len(existing_files) + 1

MaxArtifacts == 52

\* a contiguous run 1..n, and possibly files beyond the gap at n+1
Directories ==
    UNION {{(1..n) \cup extra : extra \in SUBSET {n + 2, n + 3}} :
              n \in 0..MaxArtifacts}

InitVersion ==
    /\ \E d \in Directories :
          ver = [pc |-> "find", files |-> d, existing_files |-> <<>>, next |-> 0]
    /\ pc = "idle"
    /\ max_iterations_arg = None
    /\ setting = Unset
    /\ max_iterations = 0
    /\ iteration = 0
    /\ current_code = JavaCode
    /\ validation_result = WarningReport
    /\ best_iteration = NoBest
    /\ returned = NotReturned
    /\ history = <<>>
    /\ gen_calls = 0
    /\ val_calls = 0
    /\ gen_threw_at = 0
    /\ val_outcome = "none"
    /\ cov = IdleCov
    /\ place = IdlePlace
    /\ batch = IdleBatch
    /\ imp = IdleImp
    /\ filt = IdleFilt
    /\ req = IdleReq
    /\ gen = IdleGen
    /\ ana = IdleAna
    /\ unit = IdleUnit

FindExistingTestFiles ==
    /\ ver.pc = "find"
    /\ ver' = [ver EXCEPT !.pc = "next",
                          !.existing_files = find_existing_test_files(ver.files)]
    /\ UNCHANGED <<loopVars, cov, place, batch, imp, filt, req, gen, ana, unit>>

GetNextTestFileName ==
    /\ ver.pc = "next"
    /\ ver' = [ver EXCEPT !.pc = "done",
                          !.next = get_next_test_file_name(ver.existing_files)]
    /\ UNCHANGED <<loopVars, cov, place, batch, imp, filt, req, gen, ana, unit>>

NextVersion ==
    \/ FindExistingTestFiles
    \/ GetNextTestFileName

SpecVersion == InitVersion /\ [][NextVersion]_vars

\* the number of artifacts present contiguously from the primary file
Contiguous(files) ==
    CHOOSE n \in 0..(MaxArtifacts + 4) : (1..n) \subseteq files /\ (n + 1) \notin files

\* C10: with the primary file and Test2..TestN present contiguously, the
\* scan followed by the naming step gives number N+1, whatever lies
\* beyond the first gap.
C10_NextIsNPlusOne ==
    (ver.pc = "done" /\ PrimaryFile \in ver.files) =>
        ver.next = Contiguous(ver.files) + 1

(***************************************************************************)
(* Placing a generated test file: save_test_file (core.py 2500-2540) and   *)
(* handle_incremental_test_generation (core.py 2542-2719).                 *)
(* A directory is a function from file numbers to contents.  For a Java    *)
(* unit 1 is the primary file <Class>Test.java and n >= 2 the file         *)
(* <Class>Test<n>.java.  For a Kotlin unit 1 is the primary file           *)
(* <Class>Test.kt; its name does not end in 'Test.java', so lines          *)
(* 2275-2280 and 2458-2461 cut five characters off it and n >= 2 is the    *)
(* file <Class>TeTest<n>.java.                                             *)
(* A content is a test class of plain @Test methods: the number in its     *)
(* class name (0: no class declaration) and the names of its methods, in   *)
(* order.  out is the directory of test_file_path, zip the directories of  *)
(* the extracted tree that os.walk visits, in that order.  A path is a     *)
(* directory (0: the output directory, d >= 1: zip[d]) and a file number.  *)
(* writable says whether os.makedirs and open(path, 'w') succeed in the    *)
(* output directory; when they do not they raise OSError.                  *)
(***************************************************************************)
ZipScanLimit == 10
OutDir == 0

Content(n, methods) == [cls |-> n, methods |-> methods]
\* the empty string
EmptyContent == Content(0, <<>>)
Path(d, n) == [dir |-> d, num |-> n]

\* s.replace('_', '')
CleanUnderscore(s) == SelectSeq(s, LAMBDA c : c # "_")

\* core.py 2721-2813: on a class of plain @Test methods pattern 1 yields
\* every method name and patterns 2-5 add nothing
extract_test_methods_from_content(test_content) == test_content.methods

\* what the regular expressions of lines 2311 and 2325 match in a file that
\* holds this content
FileOf(content) == File(content.methods)

\* core.py 2815-2841
find_uncovered_test_methods(new_methods, existing_methods) ==
    LET existing_lower ==
            {LowerSeq(existing_methods[i]) : i \in 1..Len(existing_methods)}
        covered(method) ==
            LET method_lower == LowerSeq(method)
            IN  \/ method_lower \in existing_lower
                \/ \E existing_method \in existing_lower :
                      \/ IsSubstring(method_lower, existing_method)
                      \/ IsSubstring(existing_method, method_lower)
                      \/ IsSubstring(CleanUnderscore(method_lower),
                                     CleanUnderscore(existing_method))
                      \/ IsSubstring(CleanUnderscore(existing_method),
                                     CleanUnderscore(method_lower))
    IN  SelectSeq(new_methods, LAMBDA m : ~covered(m))

\* core.py 2843-3032: the methods named in uncovered_methods are kept
filter_test_content_for_uncovered_methods(test_content, uncovered_methods) ==
    IF uncovered_methods = <<>> THEN EmptyContent
    ELSE [test_content EXCEPT !.methods =
             SelectSeq(test_content.methods,
                       LAMBDA m : \E i \in 1..Len(uncovered_methods) :
                                      uncovered_methods[i] = m)]

\* core.py 3044-3063: the class declaration takes the name of the new file
update_test_class_name_in_content(test_content, number) ==
    IF test_content.cls = 0 THEN test_content
    ELSE [test_content EXCEPT !.cls = number]

RECURSIVE ScanZipNumbered(_, _, _)
\* lines 2580-2588
ScanZipNumbered(d, files, counter) ==
    IF counter <= ZipScanLimit /\ counter \in files
    THEN <<Path(d, counter)>> \o ScanZipNumbered(d, files, counter + 1)
    ELSE <<>>

\* lines 2519-2523: the name of the test file ends in 'Test.java' for a
\* Java unit and in 'Test.kt' for a Kotlin unit
EndsWithTestJava(language) == language = "java"

RECURSIVE ExistingFilesFromZip(_, _, _)
\* lines 2557-2588: every directory of the walk that holds a file of the
\* primary name contributes it and, when that name ends in 'Test.java'
\* (line 2578), its numbered files
ExistingFilesFromZip(language, zip, d) ==
    IF d > Len(zip) THEN <<>>
    ELSE (IF PrimaryFile \in DOMAIN zip[d]
          THEN <<Path(d, PrimaryFile)>>
                 \o (IF EndsWithTestJava(language)
                     THEN ScanZipNumbered(d, DOMAIN zip[d], 2) ELSE <<>>)
          ELSE <<>>)
         \o ExistingFilesFromZip(language, zip, d + 1)

\* a mutant of DiscoverExistingFiles: the extracted tree is not searched
DiscoverExistingFiles_output_only(language, out, zip) ==
    LET in_out == find_existing_test_files(DOMAIN out)
    IN  [i \in 1..Len(in_out) |-> Path(OutDir, in_out[i])]

\* lines 2553-2600
DiscoverExistingFiles(language, out, zip) ==
    LET in_out == find_existing_test_files(DOMAIN out)
        existing_files == [i \in 1..Len(in_out) |-> Path(OutDir, in_out[i])]
    IN  Dedupe(existing_files \o ExistingFilesFromZip(language, zip, 1), {})

\* the content of an existing file
ReadFile(out, zip, path) ==
    IF path.dir = OutDir THEN out[path.num] ELSE zip[path.dir][path.num]

\* open(path, 'w').write(content) in the output directory
WriteFile(out, number, content) == (number :> content) @@ out

RECURSIVE AllExistingTestMethods(_, _, _)
\* lines 2613-2618
AllExistingTestMethods(out, zip, existing_files) ==
    IF existing_files = <<>> THEN <<>>
    ELSE extract_test_methods_from_file(FileOf(ReadFile(out, zip, Head(existing_files))))
           \o AllExistingTestMethods(out, zip, Tail(existing_files))

RECURSIVE CopyByPosition(_, _, _, _, _, _)
\* lines 2633-2665: with several existing files and a test file name that
\* ends in 'Test.java' (line 2645) the i-th one is written under number i;
\* otherwise every one is written under the primary name, one over the
\* other.  A write that raises is passed over (lines 2659-2660).
CopyByPosition(language, writable, out, zip, existing_files, i) ==
    IF i > Len(existing_files) THEN out
    ELSE LET file_number ==
                 IF Len(existing_files) > 1 /\ EndsWithTestJava(language)
                 THEN i ELSE PrimaryFile
         IN  CopyByPosition(language, writable,
                 IF writable
                 THEN WriteFile(out, file_number, ReadFile(out, zip, existing_files[i]))
                 ELSE out,
                 zip, existing_files, i + 1)

RECURSIVE CopySameName(_, _, _, _)
\* lines 2679-2700: every existing file is written under its own file
\* name; a write that raises is passed over (lines 2699-2700)
CopySameName(writable, out, zip, existing_files) ==
    IF existing_files = <<>> THEN out
    ELSE CopySameName(writable,
             IF writable
             THEN WriteFile(out, Head(existing_files).num,
                            ReadFile(out, zip, Head(existing_files)))
             ELSE out,
             zip, Tail(existing_files))

\* core.py 1181-1183 and 1360-1362, save_test_file 2527: the index of the
\* path component 'src' is taken; a path without it raises ValueError
PathRaises(has_src) == ~has_src

\* what is known of a call of save_test_file that raised: nothing was
\* written and nothing was returned
Raised(out) ==
    [out |-> out, returned |-> 0, branch |-> "raised", existing_files |-> <<>>,
     new_file |-> 0]

\* core.py 2542-2719: the output directory afterwards, the path returned,
\* the branch taken and the number of the new file (0: none).  The writes
\* of lines 2603-2605 and 2714-2716 stand in no try: when they raise, the
\* call raises.  In the branch that copies only, nothing raises and the
\* path of the test file is returned (line 2663) also when no copy was
\* written.
handle_incremental_test_generation(language, writable, out, zip, test_content) ==
    LET existing_files == DiscoverExistingFiles(language, out, zip)
        all_existing_test_methods == AllExistingTestMethods(out, zip, existing_files)
        new_test_methods == extract_test_methods_from_content(test_content)
        uncovered_test_methods ==
            find_uncovered_test_methods(new_test_methods, all_existing_test_methods)
        next_test_file == get_next_test_file_name(existing_files)
    IN  IF existing_files = <<>>
        THEN IF ~writable THEN Raised(out)
             ELSE [out |-> WriteFile(out, PrimaryFile, test_content),
                   returned |-> PrimaryFile, branch |-> "first",
                   existing_files |-> existing_files, new_file |-> PrimaryFile]
        ELSE IF uncovered_test_methods = <<>>
        THEN [out |-> CopyByPosition(language, writable, out, zip, existing_files, 1),
              returned |-> PrimaryFile, branch |-> "covered",
              existing_files |-> existing_files, new_file |-> 0]
        ELSE IF ~writable THEN Raised(out)
        ELSE [out |-> WriteFile(CopySameName(writable, out, zip, existing_files),
                          next_test_file,
                          update_test_class_name_in_content(
                              filter_test_content_for_uncovered_methods(
                                  test_content, uncovered_test_methods),
                              next_test_file)),
              returned |-> next_test_file, branch |-> "uncovered",
              existing_files |-> existing_files, new_file |-> next_test_file]

\* a mutant of save_test_file: the incremental branch whatever the setting
save_test_file_always_incremental(language, incremental, has_src, writable, out, zip, test_content) ==
    IF PathRaises(has_src) THEN Raised(out)
    ELSE handle_incremental_test_generation(language, writable, out, zip, test_content)

\* core.py 2500-2540: the path of the test file is built from the path of
\* the unit below its directory src (line 2527), then the content is placed
save_test_file(language, incremental, has_src, writable, out, zip, test_content) ==
    IF PathRaises(has_src) THEN Raised(out)
    ELSE IF incremental
    THEN handle_incremental_test_generation(language, writable, out, zip, test_content)
    ELSE IF ~writable THEN Raised(out)
    ELSE [out |-> WriteFile(out, PrimaryFile, test_content),
          returned |-> PrimaryFile, branch |-> "overwrite",
          existing_files |-> <<>>, new_file |-> PrimaryFile]

(***************************************************************************)
(* Inputs of placing: generated classes with tests named testA, testB and  *)
(* runC (a test whose name does not hold "test"), an output directory that *)
(* holds a contiguous run of files, and an extracted tree of up to two     *)
(* directories that hold files of the unit's test name.                    *)
(***************************************************************************)
MaxPlaces == 3

TestA == <<"t", "e", "s", "t", "A">>
TestB == <<"t", "e", "s", "t", "B">>
RunC == <<"r", "u", "n", "C">>

GeneratedContents ==
    {Content(PrimaryFile, ms) : ms \in {<<>>, <<TestA>>, <<TestB>>, <<TestA, RunC>>}}

ExistingMethods == {<<TestA>>, <<TestB>>}

\* the directories over the file numbers ns, each file a class named after
\* its own number
DirectoriesOver(ns) ==
    {[n \in ns |-> Content(n, f[n])] : f \in [ns -> ExistingMethods]}

OutputDirectories == UNION {DirectoriesOver(1..k) : k \in 0..2}

ZipDirectories == UNION {DirectoriesOver(ns) : ns \in {{1}, {1, 2}, {2}}}

ExtractedTrees == {<<>>} \cup {<<a>> : a \in ZipDirectories}
                    \cup {<<a, b>> : a \in ZipDirectories, b \in DirectoriesOver({1})}

NoPlace == [out |-> <<>>, returned |-> 0, branch |-> "none",
            existing_files |-> <<>>, new_file |-> 0]

InitPlace ==
    /\ \E incremental \in BOOLEAN, out \in OutputDirectories, zip \in ExtractedTrees,
          has_src \in BOOLEAN, language \in {"java", "kt"} :
          place = [pc |-> "ready", language |-> language,
                   incremental |-> incremental, has_src |-> has_src,
                   out |-> out,
                   zip |-> zip, count |-> 0, before |-> out,
                   content |-> EmptyContent, last |-> NoPlace, allocated |-> {}]
    /\ pc = "idle"
    /\ max_iterations_arg = None
    /\ setting = Unset
    /\ max_iterations = 0
    /\ iteration = 0
    /\ current_code = JavaCode
    /\ validation_result = WarningReport
    /\ best_iteration = NoBest
    /\ returned = NotReturned
    /\ history = <<>>
    /\ gen_calls = 0
    /\ val_calls = 0
    /\ gen_threw_at = 0
    /\ val_outcome = "none"
    /\ cov = IdleCov
    /\ ver = IdleVer
    /\ batch = IdleBatch
    /\ imp = IdleImp
    /\ filt = IdleFilt
    /\ req = IdleReq
    /\ gen = IdleGen
    /\ ana = IdleAna
    /\ unit = IdleUnit

\* one call of save_test_file for the unit, the output directory writable
\* or not at that time; a call that raised leaves the output directory as
\* it was.  content is the content of the last call that returned, last
\* the outcome of the last call.
SaveTestFile ==
    /\ place.pc = "ready"
    /\ place.count < MaxPlaces
    /\ \E test_content \in GeneratedContents, writable \in BOOLEAN :
          LET r == save_test_file(place.language, place.incremental, place.has_src,
                                  writable, place.out, place.zip, test_content)
          IN  place' = [place EXCEPT
                           !.out = r.out,
                           !.count = @ + 1,
                           !.before = place.out,
                           !.content = IF r.branch = "raised" THEN @ ELSE test_content,
                           !.last = r,
                           !.allocated = IF place.last.branch = "uncovered"
                                         THEN @ \cup {place.last.new_file} ELSE @]
    /\ UNCHANGED <<loopVars, cov, ver, batch, imp, filt, req, gen, ana, unit>>

NextPlace == SaveTestFile

SpecPlace == InitPlace /\ [][NextPlace]_vars

(***************************************************************************)
(* Claims about placing.                                                   *)
(***************************************************************************)
ExistingNumbers == {place.last.existing_files[i].num :
                       i \in 1..Len(place.last.existing_files)}

ExistingPaths == {place.last.existing_files[i] :
                     i \in 1..Len(place.last.existing_files)}

\* C11: in incremental mode the numbered files of the unit in the output
\* directory stay contiguous from 2: a file numbered K > 2 has its
\* predecessor K-1.
C11_NumberedFilesContiguous ==
    (place.pc = "ready" /\ place.incremental) =>
        \A k \in DOMAIN place.out : k > 2 => (k - 1) \in DOMAIN place.out

\* C12: when every generated test method is covered, the place adds no
\* file name beyond those of the existing artifacts and every file it
\* wrote is a verbatim copy of an existing artifact of that number.
C12_CoveredCopiesOnly ==
    (place.pc = "ready" /\ place.incremental /\ place.last.branch = "covered") =>
        /\ DOMAIN place.out = DOMAIN place.before \cup ExistingNumbers
        /\ \A p \in ExistingPaths :
              place.out[p.num] \in
                  {ReadFile(place.before, place.zip, q) :
                      q \in {e \in ExistingPaths : e.num = p.num}}

\* C13: with an uncovered test method, every existing artifact is in the
\* output directory afterwards under its own file name with its original
\* content.
C13_ExistingCopiedVerbatim ==
    (place.pc = "ready" /\ place.incremental /\ place.last.branch = "uncovered") =>
        \A p \in ExistingPaths :
            /\ p.num \in DOMAIN place.out
            /\ place.out[p.num] = ReadFile(place.before, place.zip, p)

\* C14: a place that repeats the content of the place before it leaves the
\* output directory as it was: no file is added and none changes.
C14_SecondRunAddsNothing ==
    [][(/\ place.pc = "ready"
        /\ place.incremental
        /\ place.count >= 1
        /\ place'.content = place.content)
          => place'.out = place.out]_vars

\* C15: with incremental mode off a place (a call of save_test_file that
\* returns) writes the given content to the primary path and nothing else,
\* and a place that repeats the content of the place before it leaves the
\* output directory as it was.
C15_OverwriteIdempotent ==
    [][(place.pc = "ready" /\ ~place.incremental /\ place'.last.branch # "raised") =>
          /\ place'.out = WriteFile(place.out, PrimaryFile, place'.content)
          /\ place'.last.returned = PrimaryFile
          /\ (place.count >= 1 /\ place'.content = place.content)
                => place'.out = place.out]_vars

\* C15 witness: with incremental mode off a second place of the same
\* content has left a directory of two files unchanged, the primary file
\* holding the content.
C15_Witness ==
    /\ place.pc = "ready"
    /\ ~place.incremental
    /\ place.count = 2
    /\ DOMAIN place.out = {1, 2}
    /\ place.out = place.before
    /\ place.out[1] = place.content
    /\ place.content.methods # <<>>

\* C20: the number a place allocates for its new file is held by no file
\* of the output directory and was allocated by no earlier place.
C20_AllocatedPathIsFresh ==
    (place.pc = "ready" /\ place.incremental /\ place.last.branch = "uncovered") =>
        /\ place.last.new_file \notin DOMAIN place.before
        /\ place.last.new_file \notin place.allocated

(***************************************************************************)
(* Failures of the validator call, seen at the point where the loop has    *)
(* the report in hand (pc = "score").                                      *)
(***************************************************************************)
EmptyCollections(r) ==
    /\ r.critical_issues = 0
    /\ r.missing_imports = 0
    /\ r.unused_imports = 0
    /\ r.compilation_errors = 0

\* C17 as stated: when the validator throws or its output cannot be parsed,
\* the report handed to the caller has status WARNING, its four collections
\* are empty and its weighted score is 0.
C17_FailureGivesEmptyWarning ==
    (pc = "score" /\ val_outcome \in {"unparsable", "throws"}) =>
        /\ validation_result.validation_status = "WARNING"
        /\ EmptyCollections(validation_result)
        /\ calculate_total_issues(validation_result) = 0

\* C18: when the validator call of a repair iteration throws, the loop stops
\* at that iteration and the best record stays the one of the earlier
\* iterations: the code generated in the failed iteration is never recorded
\* as best.
C18_ValidatorFailureAbortsIteration ==
    [][(pc = "score" /\ val_outcome = "throws") =>
          /\ pc' = "finish"
          /\ best_iteration' = best_iteration]_vars

(***************************************************************************)
(* The analysis with incremental support that opens the generation of a    *)
(* unit's test (core.py 1824-1849): the methods of the unit that the       *)
(* existing test files leave uncovered, and the placeholder returned when  *)
(* none is left.                                                           *)
(***************************************************************************)
NoInfo == 0 - 1

Analysis(methods, private_methods, info) ==
    [methods |-> methods, private_methods |-> private_methods,
     existing_test_files |-> info]

\* core.py 1140-1334.  The searches for existing test files run inside a
\* try; for a path without 'src' line 1183 raises before them and the
\* handler of lines 1331-1334 returns the standard analysis.
analyze_java_code_with_incremental_support(enabled, has_src, methods, private_methods, existing_test_files) ==
    IF ~enabled THEN Analysis(methods, private_methods, NoInfo)
    ELSE IF PathRaises(has_src) THEN Analysis(methods, private_methods, NoInfo)
    ELSE IF existing_test_files # <<>>
    THEN Analysis(get_uncovered_methods(methods, existing_test_files),
                  get_uncovered_methods(private_methods, existing_test_files),
                  Len(existing_test_files))
    ELSE Analysis(methods, private_methods, 0)

\* core.py 1336-1428.  For a path without 'src' line 1362 raises.  Lines
\* 1398-1399 call filter_uncovered_methods, a name bound nowhere in the
\* module: the call raises NameError.  The handler of lines 1425-1428
\* returns the standard analysis for both.
analyze_kotlin_code_with_incremental_support(enabled, has_src, methods, private_methods, existing_test_files) ==
    IF ~enabled THEN Analysis(methods, private_methods, NoInfo)
    ELSE IF PathRaises(has_src) THEN Analysis(methods, private_methods, NoInfo)
    ELSE IF existing_test_files # <<>>
    THEN Analysis(methods, private_methods, NoInfo)
    ELSE Analysis(methods, private_methods, 0)

\* core.py 1819-1832: the extension of the unit's path selects the analysis
analyze_with_incremental_support(language, enabled, has_src, methods, private_methods, existing_test_files) ==
    IF language = "kt"
    THEN analyze_kotlin_code_with_incremental_support(enabled, has_src, methods,
             private_methods, existing_test_files)
    ELSE analyze_java_code_with_incremental_support(enabled, has_src, methods,
             private_methods, existing_test_files)

AllMethodsCovered == 0 - 1

\* core.py 1840-1849: a class named <class>Test_AllMethodsCovered that
\* holds comments only
Placeholder == Content(AllMethodsCovered, <<>>)

\* core.py 1836-1839
ReturnsPlaceholder(analysis) ==
    /\ Len(analysis.methods) = 0
    /\ Len(analysis.private_methods) = 0
    /\ analysis.existing_test_files > 0

\* core.py 1177-1262: the files of the output directory, then those of the
\* extracted tree named <class>Test.java with their numbered files,
\* duplicates removed
ExistingTestFilesOfAnalysis(out, zip) ==
    LET in_out == find_existing_test_files(DOMAIN out)
        existing_test_files == [i \in 1..Len(in_out) |-> Path(OutDir, in_out[i])]
    IN  Dedupe(existing_test_files \o ExistingFilesFromZip("java", zip, 1), {})

\* core.py 1359-1393 for a Kotlin unit: the path looked up in the output
\* directory is that of the source file (line 1363), where save_test_file
\* writes nothing; of the extracted tree the files named <class>Test.kt
\* are taken, no numbered file with them
ExistingTestFilesOfKotlinAnalysis(zip) == ExistingFilesFromZip("kt", zip, 1)

\* the existing test files the analysis of a unit finds
ExistingTestFilesFound(language, out, zip) ==
    IF language = "kt" THEN ExistingTestFilesOfKotlinAnalysis(zip)
    ELSE ExistingTestFilesOfAnalysis(out, zip)

(***************************************************************************)
(* The batch over the source units of an archive: the loop of              *)
(* process_java_zip_enhanced_core (core.py 3312-3397).  Units are numbered *)
(* 1..n in the order of all_main_files.  The output directory is a fresh   *)
(* temporary directory, so the test directory of every unit starts empty;  *)
(* the extracted tree may hold a test file of the unit.                    *)
(***************************************************************************)
MaxUnits == 3

\* core.py 2162-2163: the text returned when anything raised inside
\* generate_enhanced_junit_test_with_files; it holds no class and no test
ErrorText == Content(0, <<>>)

\* core.py 1858 and 1862: the texts returned for an analysis that holds an
\* error and for a strategy that holds one; neither holds a class
AnalysisFailedText == Content(0, <<>>)
StrategyFailedText == Content(0, <<>>)

\* what the generator does when a unit is generated: get_llm raises (line
\* 1808), or the call of line 2017 answers with a class or raises
GeneratorAnswers ==
    {[kind |-> "answers", content |-> Content(PrimaryFile, ms)] :
        ms \in {<<TestCreate>>, <<DeleteTest>>}}
        \cup {[kind |-> k, content |-> ErrorText] : k \in {"no_llm", "throws"}}

\* core.py 1796-2163 for a unit with the public methods `methods`: an
\* exception anywhere gives the text of lines 2162-2163; with incremental
\* generation the placeholder is returned before the analysis is looked
\* at and before the generator is called (lines 1824-1849)
generate_enhanced_junit_test_with_files(language, incremental, has_src, methods, analysis_outcome, strategy_outcome, out, zip, answer) ==
    LET found == ExistingTestFilesFound(language, out, zip)
        existing_test_files ==
            [i \in 1..Len(found) |-> FileOf(ReadFile(out, zip, found[i]))]
        analysis ==
            IF analysis_outcome = "error" THEN Analysis(<<>>, <<>>, NoInfo)
            ELSE analyze_with_incremental_support(
                     language, incremental, has_src, methods, <<>>, existing_test_files)
    IN  IF answer.kind = "no_llm" THEN ErrorText
        ELSE IF incremental /\ ReturnsPlaceholder(analysis) THEN Placeholder
        ELSE IF analysis_outcome = "error" THEN AnalysisFailedText
        ELSE IF strategy_outcome = "error" THEN StrategyFailedText
        ELSE IF answer.kind = "throws" THEN ErrorText
        ELSE answer.content

\* the public methods of a unit whose analysis succeeds: create(), which
\* testCreate covers, or delete().  The unit is a Java or a Kotlin file and
\* its path holds a directory named src or does not; the loop reads all
\* three when it comes to the unit.
BatchMethods == {<<Create>>, <<Delete>>}

\* the extracted tree of a unit: no test file, or one directory holding the
\* primary test file with testCreate
BatchTrees == {<<>>, <<(PrimaryFile :> Content(PrimaryFile, <<TestCreate>>))>>}

NoFocus == 0

InitBatch ==
    /\ \E n \in 1..MaxUnits, incremental \in BOOLEAN :
       \E trees \in [1..n -> BatchTrees], focus \in {NoFocus, 1} :
          batch = [pc |-> "analyze", n |-> n, incremental |-> incremental,
                   trees |-> trees, DEV_FOCUS_FILE |-> focus, i |-> 1,
                   analysis |-> "none", methods |-> <<>>, has_src |-> TRUE,
                   language |-> "java", test_content |-> ErrorText,
                   visited |-> {}, no_methods |-> {}, gen_called |-> {},
                   gen_failed |-> {},
                   output_dir |-> [u \in 1..n |-> <<>>],
                   written |-> {}, generated_tests |-> <<>>,
                   result |-> "running"]
    /\ pc = "idle"
    /\ max_iterations_arg = None
    /\ setting = Unset
    /\ max_iterations = 0
    /\ iteration = 0
    /\ current_code = JavaCode
    /\ validation_result = WarningReport
    /\ best_iteration = NoBest
    /\ returned = NotReturned
    /\ history = <<>>
    /\ gen_calls = 0
    /\ val_calls = 0
    /\ gen_threw_at = 0
    /\ val_outcome = "none"
    /\ cov = IdleCov
    /\ ver = IdleVer
    /\ place = IdlePlace
    /\ imp = IdleImp
    /\ filt = IdleFilt
    /\ req = IdleReq
    /\ gen = IdleGen
    /\ ana = IdleAna
    /\ unit = IdleUnit

\* a mutant of ProceedsToGeneration: a unit without methods goes on
ProceedsToGeneration_without_methods(analysis) ==
    analysis = "ok" \/ analysis = "no_methods"

\* lines 3341-3349: the unit goes on to generation only when its analysis
\* holds no error and at least one method
ProceedsToGeneration(analysis) == analysis = "ok"

\* lines 3320-3349: the focus filter, reading and analysing the unit.  A
\* unit that is filtered out, cannot be read, whose analysis holds an error
\* or that has no method is left and the loop goes on.
AnalyzeSource ==
    /\ batch.pc = "analyze"
    /\ batch.i <= batch.n
    /\ \E analysis \in {"raises", "error", "no_methods", "ok"},
          methods \in BatchMethods, has_src \in BOOLEAN,
          language \in {"java", "kt"} :
          LET skipped == batch.DEV_FOCUS_FILE # NoFocus /\ batch.DEV_FOCUS_FILE # batch.i
              outcome == IF skipped THEN "skipped" ELSE analysis
          IN  batch' = [batch EXCEPT
                           !.visited = @ \cup {batch.i},
                           !.analysis = outcome,
                           !.methods = IF outcome = "ok" THEN methods ELSE <<>>,
                           !.has_src = IF outcome = "ok" THEN has_src ELSE TRUE,
                           !.language = IF outcome = "ok" THEN language ELSE "java",
                           !.no_methods = IF outcome = "no_methods"
                                          THEN @ \cup {batch.i} ELSE @,
                           !.pc = IF ProceedsToGeneration(outcome)
                                  THEN "generate" ELSE "analyze",
                           !.i = IF ProceedsToGeneration(outcome) THEN @ ELSE @ + 1]
    /\ UNCHANGED <<loopVars, cov, ver, place, imp, filt, req, gen, ana, unit>>

\* lines 3361-3370: the generation of the unit's test.  The unit was read
\* and analysed without error just before, and create_test_strategy
\* raises on no analysis that the unit's analyser returns, so the call
\* finds neither an analysis error nor a strategy error.  The generation
\* failed when the text of lines 2162-2163 came back.
GenerateTest ==
    /\ batch.pc = "generate"
    /\ \E answer \in GeneratorAnswers :
          LET u == batch.i
              content == generate_enhanced_junit_test_with_files(
                             batch.language, batch.incremental, batch.has_src,
                             batch.methods,
                             IF batch.analysis = "error" THEN "error" ELSE "ok", "ok",
                             batch.output_dir[u], batch.trees[u], answer)
          IN  batch' = [batch EXCEPT
                           !.test_content = content,
                           !.gen_called = @ \cup {u},
                           !.gen_failed = IF content = ErrorText
                                          THEN @ \cup {u} ELSE @,
                           !.pc = "save"]
    /\ UNCHANGED <<loopVars, cov, ver, place, imp, filt, req, gen, ana, unit>>

\* lines 3372-3391: the test is saved and the unit is reported; an
\* exception of the save leaves the unit unreported and the loop goes on.
\* The save raises for a path without 'src' (line 2527) and when a write
\* outside a try fails.  When the output directory cannot be written and
\* the save only copies existing files, every failure is passed over, the
\* save returns and the unit is reported with nothing written.
SaveGenerated ==
    /\ batch.pc = "save"
    /\ \E writable \in BOOLEAN :
          LET u == batch.i
              r == save_test_file(batch.language, batch.incremental, batch.has_src,
                                  writable, batch.output_dir[u], batch.trees[u],
                                  batch.test_content)
          IN  IF r.branch = "raised"
              THEN batch' = [batch EXCEPT !.pc = "analyze", !.i = @ + 1]
              ELSE batch' = [batch EXCEPT
                                !.output_dir[u] = r.out,
                                !.written = IF r.new_file # 0 THEN @ \cup {u} ELSE @,
                                !.generated_tests =
                                    Append(@, [original_class |-> u,
                                               test_file |-> r.returned]),
                                !.pc = "analyze",
                                !.i = @ + 1]
    /\ UNCHANGED <<loopVars, cov, ver, place, imp, filt, req, gen, ana, unit>>

\* lines 3393-3397: after the last unit
FinishBatch ==
    /\ batch.pc = "analyze"
    /\ batch.i > batch.n
    /\ batch' = [batch EXCEPT
                    !.pc = "done",
                    !.result = IF batch.generated_tests = <<>>
                               THEN "no_tests" ELSE "packaged"]
    /\ UNCHANGED <<loopVars, cov, ver, place, imp, filt, req, gen, ana, unit>>

NextBatch == AnalyzeSource \/ GenerateTest \/ SaveGenerated \/ FinishBatch

SpecBatch == InitBatch /\ [][NextBatch]_vars

ReportedUnits == {batch.generated_tests[k].original_class :
                     k \in 1..Len(batch.generated_tests)}

\* C16: a unit whose generator call failed has no test artifact written and
\* is not reported among the generated tests, and every unit of the batch
\* has been processed when the batch ends.
C16_FailedUnitLeavesNothing ==
    /\ \A u \in batch.gen_failed :
          /\ u \notin batch.written
          /\ u \notin ReportedUnits
    /\ batch.pc = "done" => batch.visited = 1..batch.n

(***************************************************************************)
(* Import detection of analyze_java_code (core.py 734-831) with the        *)
(* detector of detectors/enhanced_import_detector.py.  An import, a        *)
(* package and a class name are strings, modelled as the sequences of      *)
(* their characters, so that str.startswith, the substring test and        *)
(* str.lower are those of the code.  Of the rules of the detector the      *)
(* model keeps two, the Spring rule and the Jackson rule, each with its    *)
(* whole import list.                                                      *)
(***************************************************************************)
\* imp.split('.')[-1]
SimpleName(import) ==
    LET dots == {i \in 1..Len(import) : import[i] = "."}
        last == IF dots = {} THEN 0 ELSE CHOOSE i \in dots : \A k \in dots : k <= i
    IN  SubSeq(import, last + 1, Len(import))

\* org.springframework.stereotype.Service
SpringService ==
    <<"o", "r", "g", ".", "s", "p", "r", "i", "n", "g", "f", "r", "a", "m",
      "e", "w", "o", "r", "k", ".", "s", "t", "e", "r", "e", "o", "t", "y",
      "p", "e", ".", "S", "e", "r", "v", "i", "c", "e">>

\* org.springframework.stereotype.Repository
SpringRepository ==
    <<"o", "r", "g", ".", "s", "p", "r", "i", "n", "g", "f", "r", "a", "m",
      "e", "w", "o", "r", "k", ".", "s", "t", "e", "r", "e", "o", "t", "y",
      "p", "e", ".", "R", "e", "p", "o", "s", "i", "t", "o", "r", "y">>

\* org.springframework.beans.factory.annotation.Autowired
SpringAutowired ==
    <<"o", "r", "g", ".", "s", "p", "r", "i", "n", "g", "f", "r", "a", "m",
      "e", "w", "o", "r", "k", ".", "b", "e", "a", "n", "s", ".", "f", "a",
      "c", "t", "o", "r", "y", ".", "a", "n", "n", "o", "t", "a", "t", "i",
      "o", "n", ".", "A", "u", "t", "o", "w", "i", "r", "e", "d">>

\* org.springframework.http.ResponseEntity
SpringResponseEntity ==
    <<"o", "r", "g", ".", "s", "p", "r", "i", "n", "g", "f", "r", "a", "m",
      "e", "w", "o", "r", "k", ".", "h", "t", "t", "p", ".", "R", "e", "s",
      "p", "o", "n", "s", "e", "E", "n", "t", "i", "t", "y">>

\* org.springframework.web.bind.annotation.RestController
SpringRestController ==
    <<"o", "r", "g", ".", "s", "p", "r", "i", "n", "g", "f", "r", "a", "m",
      "e", "w", "o", "r", "k", ".", "w", "e", "b", ".", "b", "i", "n", "d",
      ".", "a", "n", "n", "o", "t", "a", "t", "i", "o", "n", ".", "R", "e",
      "s", "t", "C", "o", "n", "t", "r", "o", "l", "l", "e", "r">>

\* org.springframework.web.bind.annotation.RequestMapping
SpringRequestMapping ==
    <<"o", "r", "g", ".", "s", "p", "r", "i", "n", "g", "f", "r", "a", "m",
      "e", "w", "o", "r", "k", ".", "w", "e", "b", ".", "b", "i", "n", "d",
      ".", "a", "n", "n", "o", "t", "a", "t", "i", "o", "n", ".", "R", "e",
      "q", "u", "e", "s", "t", "M", "a", "p", "p", "i", "n", "g">>

\* org.springframework.data.jpa.repository.JpaRepository
JpaRepository ==
    <<"o", "r", "g", ".", "s", "p", "r", "i", "n", "g", "f", "r", "a", "m",
      "e", "w", "o", "r", "k", ".", "d", "a", "t", "a", ".", "j", "p", "a",
      ".", "r", "e", "p", "o", "s", "i", "t", "o", "r", "y", ".", "J", "p",
      "a", "R", "e", "p", "o", "s", "i", "t", "o", "r", "y">>

\* com.fasterxml.jackson.databind.ObjectMapper
JacksonObjectMapper ==
    <<"c", "o", "m", ".", "f", "a", "s", "t", "e", "r", "x", "m", "l", ".",
      "j", "a", "c", "k", "s", "o", "n", ".", "d", "a", "t", "a", "b", "i",
      "n", "d", ".", "O", "b", "j", "e", "c", "t", "M", "a", "p", "p", "e",
      "r">>

\* com.fasterxml.jackson.databind.JsonNode
JacksonJsonNode ==
    <<"c", "o", "m", ".", "f", "a", "s", "t", "e", "r", "x", "m", "l", ".",
      "j", "a", "c", "k", "s", "o", "n", ".", "d", "a", "t", "a", "b", "i",
      "n", "d", ".", "J", "s", "o", "n", "N", "o", "d", "e">>

\* org.springframework.http.HttpHeaders
SpringHttpHeaders ==
    <<"o", "r", "g", ".", "s", "p", "r", "i", "n", "g", "f", "r", "a",
      "m", "e", "w", "o", "r", "k", ".", "h", "t", "t", "p", ".", "H",
      "t", "t", "p", "H", "e", "a", "d", "e", "r", "s">>

\* org.springframework.http.HttpStatus
SpringHttpStatus ==
    <<"o", "r", "g", ".", "s", "p", "r", "i", "n", "g", "f", "r", "a",
      "m", "e", "w", "o", "r", "k", ".", "h", "t", "t", "p", ".", "H",
      "t", "t", "p", "S", "t", "a", "t", "u", "s">>

\* org.springframework.stereotype.Component
SpringComponent ==
    <<"o", "r", "g", ".", "s", "p", "r", "i", "n", "g", "f", "r", "a",
      "m", "e", "w", "o", "r", "k", ".", "s", "t", "e", "r", "e", "o",
      "t", "y", "p", "e", ".", "C", "o", "m", "p", "o", "n", "e", "n",
      "t">>

\* com.fasterxml.jackson.core.JsonProcessingException
JacksonJsonProcessingException ==
    <<"c", "o", "m", ".", "f", "a", "s", "t", "e", "r", "x", "m", "l",
      ".", "j", "a", "c", "k", "s", "o", "n", ".", "c", "o", "r", "e",
      ".", "J", "s", "o", "n", "P", "r", "o", "c", "e", "s", "s", "i",
      "n", "g", "E", "x", "c", "e", "p", "t", "i", "o", "n">>

\* com.fasterxml.jackson.annotation.JsonProperty
JacksonJsonProperty ==
    <<"c", "o", "m", ".", "f", "a", "s", "t", "e", "r", "x", "m", "l",
      ".", "j", "a", "c", "k", "s", "o", "n", ".", "a", "n", "n", "o",
      "t", "a", "t", "i", "o", "n", ".", "J", "s", "o", "n", "P", "r",
      "o", "p", "e", "r", "t", "y">>

\* com.fasterxml.jackson.annotation.JsonIgnore
JacksonJsonIgnore ==
    <<"c", "o", "m", ".", "f", "a", "s", "t", "e", "r", "x", "m", "l",
      ".", "j", "a", "c", "k", "s", "o", "n", ".", "a", "n", "n", "o",
      "t", "a", "t", "i", "o", "n", ".", "J", "s", "o", "n", "I", "g",
      "n", "o", "r", "e">>

\* jakarta.validation.Valid
JakartaValid ==
    <<"j", "a", "k", "a", "r", "t", "a", ".", "v", "a", "l", "i", "d", "a",
      "t", "i", "o", "n", ".", "V", "a", "l", "i", "d">>

\* jakarta.validation.constraints.NotNull
JakartaNotNull ==
    <<"j", "a", "k", "a", "r", "t", "a", ".", "v", "a", "l", "i", "d", "a",
      "t", "i", "o", "n", ".", "c", "o", "n", "s", "t", "r", "a", "i", "n",
      "t", "s", ".", "N", "o", "t", "N", "u", "l", "l">>

\* jakarta.validation.constraints.NotEmpty
JakartaNotEmpty ==
    <<"j", "a", "k", "a", "r", "t", "a", ".", "v", "a", "l", "i", "d", "a",
      "t", "i", "o", "n", ".", "c", "o", "n", "s", "t", "r", "a", "i", "n",
      "t", "s", ".", "N", "o", "t", "E", "m", "p", "t", "y">>

\* org.junit.jupiter.api.Test
JUnitTest ==
    <<"o", "r", "g", ".", "j", "u", "n", "i", "t", ".", "j", "u", "p", "i",
      "t", "e", "r", ".", "a", "p", "i", ".", "T", "e", "s", "t">>

\* org.junit.jupiter.api.BeforeEach
JUnitBeforeEach ==
    <<"o", "r", "g", ".", "j", "u", "n", "i", "t", ".", "j", "u", "p", "i",
      "t", "e", "r", ".", "a", "p", "i", ".", "B", "e", "f", "o", "r", "e",
      "E", "a", "c", "h">>

\* org.mockito.Mock
MockitoMock ==
    <<"o", "r", "g", ".", "m", "o", "c", "k", "i", "t", "o", ".", "M", "o",
      "c", "k">>

\* org.mockito.InjectMocks
MockitoInjectMocks ==
    <<"o", "r", "g", ".", "m", "o", "c", "k", "i", "t", "o", ".", "I", "n",
      "j", "e", "c", "t", "M", "o", "c", "k", "s">>

\* enhanced_import_detector.py 89-99 and 117-123: the imports of a rule
RuleImports(rule) ==
    CASE rule = "spring" ->
            {SpringHttpHeaders, SpringResponseEntity, SpringHttpStatus,
             SpringRestController, SpringRequestMapping, SpringAutowired,
             SpringService, SpringComponent, SpringRepository}
      [] rule = "jackson" ->
            {JacksonObjectMapper, JacksonJsonNode, JacksonJsonProcessingException,
             JacksonJsonProperty, JacksonJsonIgnore}

Rules == {"spring", "jackson"}

\* enhanced_import_detector.py 405-442: the imports of every rule of which a
\* pattern matches the code
detect_imports(matched_rules) == UNION {RuleImports(rule) : rule \in matched_rules}

\* 'word' in class_lower
ClassNameHolds(class_name, word) == IsSubstring(word, LowerSeq(class_name))

\* enhanced_import_detector.py 455-492: the additions chosen by the words
\* that the lower-cased class name holds, the first test that succeeds
ClassNameImports(class_name) ==
    IF ClassNameHolds(class_name, <<"c", "o", "n", "t", "r", "o", "l", "l", "e", "r">>)
    THEN {SpringRestController, SpringRequestMapping, SpringResponseEntity}
    ELSE IF ClassNameHolds(class_name, <<"s", "e", "r", "v", "i", "c", "e">>)
    THEN {SpringService, SpringAutowired}
    ELSE IF \/ ClassNameHolds(class_name,
                              <<"r", "e", "p", "o", "s", "i", "t", "o", "r", "y">>)
            \/ ClassNameHolds(class_name, <<"d", "a", "o">>)
    THEN {SpringRepository, JpaRepository}
    ELSE IF ClassNameHolds(class_name, <<"v", "a", "l", "i", "d", "a", "t", "o", "r">>)
    THEN {JakartaValid, JakartaNotNull, JakartaNotEmpty}
    ELSE IF ClassNameHolds(class_name, <<"t", "e", "s", "t">>)
    THEN {JUnitTest, JUnitBeforeEach, MockitoMock, MockitoInjectMocks}
    ELSE {}

\* enhanced_import_detector.py 444-494
get_contextual_imports(matched_rules, class_name) ==
    detect_imports(matched_rules) \cup ClassNameImports(class_name)

\* core.py 802-804: 'java.', 'javax.', 'jakarta.', 'org.junit',
\* 'org.mockito', 'org.springframework.test'
StandardPrefixes ==
    {<<"j", "a", "v", "a", ".">>,
     <<"j", "a", "v", "a", "x", ".">>,
     <<"j", "a", "k", "a", "r", "t", "a", ".">>,
     <<"o", "r", "g", ".", "j", "u", "n", "i", "t">>,
     <<"o", "r", "g", ".", "m", "o", "c", "k", "i", "t", "o">>,
     <<"o", "r", "g", ".", "s", "p", "r", "i", "n", "g", "f", "r", "a", "m", "e",
       "w", "o", "r", "k", ".", "t", "e", "s", "t">>}

\* core.py 811-813: 'apache.commons', 'fasterxml.jackson', 'google.guava',
\* 'slf4j', 'logback', 'lombok'
ThirdPartyKeywords ==
    {<<"a", "p", "a", "c", "h", "e", ".", "c", "o", "m", "m", "o", "n", "s">>,
     <<"f", "a", "s", "t", "e", "r", "x", "m", "l", ".", "j", "a", "c", "k", "s",
       "o", "n">>,
     <<"g", "o", "o", "g", "l", "e", ".", "g", "u", "a", "v", "a">>,
     <<"s", "l", "f", "4", "j">>,
     <<"l", "o", "g", "b", "a", "c", "k">>,
     <<"l", "o", "m", "b", "o", "k">>}

\* core.py 813: org.springframework.
SpringPrefix ==
    <<"o", "r", "g", ".", "s", "p", "r", "i", "n", "g", "f", "r", "a", "m",
      "e", "w", "o", "r", "k", ".">>

\* core.py 817: 'org.springframework', 'org.apache.logging', 'org.slf4j'
FrameworkPrefixes ==
    {<<"o", "r", "g", ".", "s", "p", "r", "i", "n", "g", "f", "r", "a", "m", "e",
       "w", "o", "r", "k">>,
     <<"o", "r", "g", ".", "a", "p", "a", "c", "h", "e", ".", "l", "o", "g", "g",
       "i", "n", "g">>,
     <<"o", "r", "g", ".", "s", "l", "f", "4", "j">>}

\* core.py 802-804: the import starts with none of the standard prefixes
IsNonStandard(imp_) == ~\E prefix \in StandardPrefixes : StartsWith(imp_, prefix)

\* core.py 806: the import starts with the package of the unit
IsApplicationImport(imp_, package_name) ==
    package_name # <<>> /\ StartsWith(imp_, package_name)

\* core.py 811: keyword in imp.lower()
ContainsKeyword(imp_, keyword) == IsSubstring(keyword, LowerSeq(imp_))

\* core.py 800-818: the imports of the unit that are kept for its test
IsProjectSpecific(imp_, package_name) ==
    /\ IsNonStandard(imp_)
    /\ \/ IsApplicationImport(imp_, package_name)
       \/ \E keyword \in ThirdPartyKeywords : ContainsKeyword(imp_, keyword)
       \/ (IsSubstring(<<".">>, imp_) /\ ~StartsWith(imp_, SpringPrefix))
       \/ ~\E prefix \in FrameworkPrefixes : StartsWith(imp_, prefix)

\* core.py 798-810: the simple names of the application classes
ApplicationClasses(imports, package_name) ==
    {SimpleName(imp_) : imp_ \in
        {x \in imports : IsNonStandard(x) /\ IsApplicationImport(x, package_name)}}

\* core.py 819-827
FilteredDetectedImports(detected_imports, application_classes) ==
    {d \in detected_imports : SimpleName(d) \notin application_classes}

\* core.py 789-831 and the dictionary returned at lines 914-924: the key
\* detected_imports holds the filtered list
analyze_java_code(package_name, imports, matched_rules, class_name) ==
    LET detected_imports == detect_imports(matched_rules)
        contextual_imports == get_contextual_imports(matched_rules, class_name)
        application_classes == ApplicationClasses(imports, package_name)
        project_specific_imports ==
            {x \in imports : IsProjectSpecific(x, package_name)}
        filtered_detected_imports ==
            FilteredDetectedImports(detected_imports, application_classes)
    IN  [detected_imports |-> filtered_detected_imports,
         contextual_imports |-> contextual_imports,
         application_classes |-> application_classes,
         project_specific_imports |-> project_specific_imports,
         all_test_imports |-> filtered_detected_imports \cup contextual_imports
                                 \cup project_specific_imports]

(***************************************************************************)
(* Inputs of import detection: a unit of package com.x (or of no package)  *)
(* that imports some of six classes, the rules its code matches and its    *)
(* class name.  The package com.xy is not com.x, but its name starts with  *)
(* the characters of com.x.                                                *)
(***************************************************************************)
\* com.x
AppPackage ==
    <<"c", "o", "m", ".", "x">>

\* com.x.model.Service
AppService ==
    <<"c", "o", "m", ".", "x", ".", "m", "o", "d", "e", "l", ".", "S", "e",
      "r", "v", "i", "c", "e">>

\* com.x.util.ObjectMapper
AppObjectMapper ==
    <<"c", "o", "m", ".", "x", ".", "u", "t", "i", "l", ".", "O", "b", "j",
      "e", "c", "t", "M", "a", "p", "p", "e", "r">>

\* com.xy.util.JsonNode
NeighbourJsonNode ==
    <<"c", "o", "m", ".", "x", "y", ".", "u", "t", "i", "l", ".", "J", "s",
      "o", "n", "N", "o", "d", "e">>

\* java.util.List
JavaList ==
    <<"j", "a", "v", "a", ".", "u", "t", "i", "l", ".", "L", "i", "s", "t">>

\* org.apache.commons.lang3.StringUtils
CommonsStringUtils ==
    <<"o", "r", "g", ".", "a", "p", "a", "c", "h", "e", ".", "c", "o", "m",
      "m", "o", "n", "s", ".", "l", "a", "n", "g", "3", ".", "S", "t", "r",
      "i", "n", "g", "U", "t", "i", "l", "s">>

\* org.springframework.transaction.annotation.Transactional
SpringTransactional ==
    <<"o", "r", "g", ".", "s", "p", "r", "i", "n", "g", "f", "r", "a", "m",
      "e", "w", "o", "r", "k", ".", "t", "r", "a", "n", "s", "a", "c", "t",
      "i", "o", "n", ".", "a", "n", "n", "o", "t", "a", "t", "i", "o", "n",
      ".", "T", "r", "a", "n", "s", "a", "c", "t", "i", "o", "n", "a", "l">>

SourceImports ==
    {AppService, AppObjectMapper, NeighbourJsonNode, JavaList, CommonsStringUtils,
     SpringTransactional}

\* Widget
Widget ==
    <<"W", "i", "d", "g", "e", "t">>

\* UserController
UserController ==
    <<"U", "s", "e", "r", "C", "o", "n", "t", "r", "o", "l", "l", "e", "r">>

\* UserService
UserService ==
    <<"U", "s", "e", "r", "S", "e", "r", "v", "i", "c", "e">>

\* UserRepository
UserRepository ==
    <<"U", "s", "e", "r", "R", "e", "p", "o", "s", "i", "t", "o", "r", "y">>

\* ServiceController
ServiceController ==
    <<"S", "e", "r", "v", "i", "c", "e", "C", "o", "n", "t", "r", "o", "l",
      "l", "e", "r">>

\* WidgetDao
WidgetDao ==
    <<"W", "i", "d", "g", "e", "t", "D", "a", "o">>

ClassNames ==
    {Widget, UserController, UserService, UserRepository, ServiceController,
     WidgetDao}

NoAnalysis == [detected_imports |-> {}, contextual_imports |-> {},
               application_classes |-> {}, project_specific_imports |-> {},
               all_test_imports |-> {}]

InitImports ==
    /\ \E package_name \in {<<>>, AppPackage}, imports \in SUBSET SourceImports,
          matched_rules \in SUBSET Rules, class_name \in ClassNames :
          imp = [pc |-> "ready", package_name |-> package_name, imports |-> imports,
                 matched_rules |-> matched_rules, class_name |-> class_name,
                 analysis |-> NoAnalysis]
    /\ pc = "idle"
    /\ max_iterations_arg = None
    /\ setting = Unset
    /\ max_iterations = 0
    /\ iteration = 0
    /\ current_code = JavaCode
    /\ validation_result = WarningReport
    /\ best_iteration = NoBest
    /\ returned = NotReturned
    /\ history = <<>>
    /\ gen_calls = 0
    /\ val_calls = 0
    /\ gen_threw_at = 0
    /\ val_outcome = "none"
    /\ cov = IdleCov
    /\ ver = IdleVer
    /\ place = IdlePlace
    /\ batch = IdleBatch
    /\ filt = IdleFilt
    /\ req = IdleReq
    /\ gen = IdleGen
    /\ ana = IdleAna
    /\ unit = IdleUnit

\* one call of analyze_java_code on the unit
AnalyzeJavaCode ==
    /\ imp.pc = "ready"
    /\ imp' = [imp EXCEPT
                  !.pc = "analyzed",
                  !.analysis = analyze_java_code(imp.package_name, imp.imports,
                                                 imp.matched_rules, imp.class_name)]
    /\ UNCHANGED <<loopVars, cov, ver, place, batch, filt, req, gen, ana, unit>>

NextImports == AnalyzeJavaCode

SpecImports == InitImports /\ [][NextImports]_vars

\* C19: an import suggested by detection (by the pattern rules or by the
\* class name) whose simple name is the name of an application class of the
\* unit is not in all_test_imports.  The suggestions are the contextual
\* imports: every import the pattern rules detect and every import the
\* class name adds.
C19_ConflictingSuggestionsSuppressed ==
    imp.pc = "analyzed" =>
        \A suggested \in imp.analysis.contextual_imports :
            SimpleName(suggested) \in imp.analysis.application_classes =>
                suggested \notin imp.analysis.all_test_imports

\* C21: for a unit whose analysis yields no methods the generator is not
\* called and no file is written: its test directory stays empty and it is
\* not reported.
C21_NoMethodsNoGeneration ==
    \A u \in batch.no_methods :
        /\ u \notin batch.gen_called
        /\ u \notin batch.written
        /\ batch.output_dir[u] = <<>>
        /\ u \notin ReportedUnits

\* C21 witness: the batch has ended, unit 1 had no methods and unit 2 was
\* generated and saved.
C21_Witness ==
    /\ batch.pc = "done"
    /\ 1 \in batch.no_methods
    /\ 2 \in batch.written

(***************************************************************************)
(* filter_test_content_for_uncovered_methods line by line (core.py         *)
(* 2843-3032).  A line is what the filter reads of it: the prefix class of *)
(* the stripped line, its numbers of opening and closing braces and the    *)
(* name the method patterns of lines 2914-2918 capture in it.  The fields  *)
(* member, pos and role say where the line stands in the class; the filter *)
(* does not read them.  The prefix classes are those of the texts given    *)
(* with the inputs below; the filter tests prefixes of the text, so a line *)
(* '@TestInstance(...)' (test_instance_annotation) starts with             *)
(* '@TestInstance' and with '@Test'.                                       *)
(***************************************************************************)
NoName == <<>>

Line(start, opens, closes, name, member, pos, role) ==
    [start |-> start, opens |-> opens, closes |-> closes, name |-> name,
     member |-> member, pos |-> pos, role |-> role]

\* lines 2865-2867
IsHeaderLine(l) == l.start \in {"package", "import", "blank"}

\* stripped.startswith('@Test'), '@ParameterizedTest' or '@RepeatedTest'
\* (lines 2908-2910 and 3036-3038)
StartsWithTestAnnotation(l) ==
    l.start \in {"test_annotation", "test_instance_annotation"}

\* lines 2873-2877
IsClassLine(l) ==
    l.start \in {"class_annotation", "test_instance_annotation", "class"}

\* lines 3034-3042
in_method_context(l) ==
    StartsWithTestAnnotation(l) \/ l.start = "lifecycle_annotation"

\* lines 2893-2901
IsFieldLine(l) ==
    ~in_method_context(l) /\ l.start \in {"field_annotation", "modifier"}

\* lines 3006-3010
IsCommentLine(l) == l.start \in {"comment", "blank"}

\* lines 2911-2926: the first name captured in the ten lines from line i
RECURSIVE MethodNameAhead(_, _, _)
MethodNameAhead(lines, j, last) ==
    IF j > last \/ j > Len(lines) THEN NoName
    ELSE IF lines[j].name # NoName THEN lines[j].name
    ELSE MethodNameAhead(lines, j + 1, last)

\* lines 2941-2955, 2967-2980 and 2995-3003: the index after the line on
\* which the brace count of the lines from i returns to zero
RECURSIVE MethodEnd(_, _, _, _)
MethodEnd(lines, i, method_brace_count, method_started) ==
    IF i > Len(lines) THEN i
    ELSE LET l == lines[i]
             started == method_started \/ l.opens > 0
             count == method_brace_count + l.opens - l.closes
         IN  IF l.closes > 0 /\ started /\ count <= 0
             THEN i + 1
             ELSE MethodEnd(lines, i + 1, count, started)

\* lines 2859-3013: the loop over the lines from line i
RECURSIVE FilterFrom(_, _, _, _, _, _)
FilterFrom(lines, uncovered_methods, i, in_class, class_brace_count, filtered_lines) ==
    IF i > Len(lines)
    THEN [filtered_lines |-> filtered_lines, in_class |-> in_class,
          class_brace_count |-> class_brace_count]
    ELSE
    LET line == lines[i]
        count == IF in_class THEN class_brace_count + line.opens - line.closes
                 ELSE class_brace_count
        end == MethodEnd(lines, i + 1, 0, FALSE)
    IN  IF IsHeaderLine(line)
        THEN FilterFrom(lines, uncovered_methods, i + 1, in_class, class_brace_count,
                        Append(filtered_lines, line))
        ELSE IF IsClassLine(line)
        THEN FilterFrom(lines, uncovered_methods, i + 1,
                        in_class \/ line.start = "class",
                        IF line.start = "class" THEN 0 ELSE class_brace_count,
                        Append(filtered_lines, line))
        ELSE IF in_class /\ count < 0
        THEN [filtered_lines |-> Append(filtered_lines, line), in_class |-> in_class,
              class_brace_count |-> count]
        ELSE IF in_class /\ IsFieldLine(line)
        THEN FilterFrom(lines, uncovered_methods, i + 1, in_class, count,
                        Append(filtered_lines, line))
        ELSE IF StartsWithTestAnnotation(line)
        THEN IF MethodNameAhead(lines, i, i + 9) \in uncovered_methods
             THEN FilterFrom(lines, uncovered_methods, end, in_class, count,
                             filtered_lines \o SubSeq(lines, i, end - 1))
             ELSE FilterFrom(lines, uncovered_methods, end, in_class, count,
                             filtered_lines)
        ELSE IF line.start = "lifecycle_annotation"
        THEN FilterFrom(lines, uncovered_methods, end, in_class, count,
                        filtered_lines \o SubSeq(lines, i, end - 1))
        ELSE FilterFrom(lines, uncovered_methods, i + 1, in_class, count,
                        IF in_class /\ IsCommentLine(line)
                        THEN Append(filtered_lines, line) ELSE filtered_lines)

\* the closing brace of line 3017
AddedBrace == Line("other", 0, 1, NoName, 0, 0, "added_brace")

\* lines 2843-3032; the empty text is the empty sequence of lines
FilterLines(lines, uncovered_methods) ==
    IF uncovered_methods = {} THEN <<>>
    ELSE LET r == FilterFrom(lines, uncovered_methods, 1, FALSE, 0, <<>>)
         IN  IF r.in_class /\ r.class_brace_count >= 0
             THEN Append(r.filtered_lines, AddedBrace)
             ELSE r.filtered_lines

(***************************************************************************)
(* Inputs of filtering: a generated test class with a head (package,       *)
(* imports, @ExtendWith or @TestInstance, class line), up to MaxMembers    *)
(* members and the closing brace of the class.  The text each line stands  *)
(* for is given next to it.                                                *)
(***************************************************************************)
MaxMembers == 3

Statement(k, p, role) == Line("other", 0, 0, NoName, k, p, role)    \* int x = 1;
CloseBrace(k, p, role) == Line("other", 0, 1, NoName, k, p, role)   \* }

\* "class_annotation": @ExtendWith(M.class)
\* "test_instance_annotation": @TestInstance(Lifecycle.PER_CLASS)
HeadAnnotations == {"class_annotation", "test_instance_annotation"}

ClassHead(annotation) ==
    <<Line("package", 0, 0, NoName, 0, 1, "package"),               \* package a;
      Line("blank", 0, 0, NoName, 0, 2, "blank"),
      Line("import", 0, 0, NoName, 0, 3, "import"),                 \* import org.junit...Test;
      Line("import", 0, 0, NoName, 0, 4, "import"),                 \* import java.util.List;
      Line("blank", 0, 0, NoName, 0, 5, "blank"),
      Line(annotation, 0, 0, NoName, 0, 6, "class"),
      Line("class", 1, 0, NoName, 0, 7, "class")>>                  \* public class UserServiceTest {

ClassClose == CloseBrace(0, 8, "class_close")

HelperName == <<"h", "e", "l", "p", "e", "r">>
SetUpName == <<"s", "e", "t", "U", "p">>

MemberKinds ==
    {"field", "mock_field", "plain_field", "comment", "lifecycle", "helper",
     "testA", "testB", "nested_testA", "param_testA", "public_param_testB"}

TestKinds == {"testA", "testB", "nested_testA", "param_testA", "public_param_testB"}

TestNameOf(kind) ==
    IF kind \in {"testB", "public_param_testB"} THEN TestB ELSE TestA

\* the lines of member k of the class
Member(kind, k) ==
    CASE kind = "field" ->
            <<Line("modifier", 0, 0, NoName, k, 1, kind)>>           \* private int count;
      [] kind = "mock_field" ->
            <<Line("field_annotation", 0, 0, NoName, k, 1, kind),    \* @Mock
              Line("modifier", 0, 0, NoName, k, 2, kind)>>           \* private List<String> items;
      [] kind = "plain_field" ->
            <<Statement(k, 1, kind)>>                                \* List<String> names;
      [] kind = "comment" ->
            <<Line("comment", 0, 0, NoName, k, 1, kind)>>            \* // note
      [] kind = "lifecycle" ->
            <<Line("lifecycle_annotation", 0, 0, NoName, k, 1, kind), \* @BeforeEach
              Line("other", 1, 0, SetUpName, k, 2, kind),            \* void setUp() {
              Statement(k, 3, kind),
              CloseBrace(k, 4, kind)>>
      [] kind = "helper" ->
            <<Line("modifier", 1, 0, HelperName, k, 1, kind),        \* private int helper() {
              Statement(k, 2, kind),                                 \* return 1;
              CloseBrace(k, 3, kind)>>
      [] kind \in {"testA", "testB"} ->
            <<Line("test_annotation", 0, 0, NoName, k, 1, kind),     \* @Test
              Line("other", 1, 0, TestNameOf(kind), k, 2, kind),     \* void testA() {
              Statement(k, 3, kind),
              CloseBrace(k, 4, kind)>>
      [] kind = "nested_testA" ->
            <<Line("test_annotation", 0, 0, NoName, k, 1, kind),     \* @Test
              Line("other", 1, 0, TestA, k, 2, kind),                \* void testA() {
              Line("other", 1, 0, NoName, k, 3, kind),               \* if (true) {
              Statement(k, 4, kind),
              Line("other", 1, 1, NoName, k, 5, kind),               \* } else {
              Statement(k, 6, kind),
              CloseBrace(k, 7, kind),
              CloseBrace(k, 8, kind)>>
      [] kind = "param_testA" ->
            <<Line("test_annotation", 0, 0, NoName, k, 1, kind),     \* @ParameterizedTest
              Line("other", 1, 1, NoName, k, 2, kind),               \* @ValueSource(ints = {1, 2})
              Line("other", 1, 0, TestA, k, 3, kind),                \* void testA(int v) {
              Statement(k, 4, kind),
              CloseBrace(k, 5, kind)>>
      [] kind = "public_param_testB" ->
            <<Line("test_annotation", 0, 0, NoName, k, 1, kind),     \* @ParameterizedTest
              Line("other", 1, 1, NoName, k, 2, kind),               \* @ValueSource(ints = {1, 2})
              Line("modifier", 1, 0, TestB, k, 3, kind),             \* public void testB(int v) {
              Statement(k, 4, kind),
              CloseBrace(k, 5, kind)>>

RECURSIVE MemberLines(_, _)
MemberLines(kinds, k) ==
    IF k > Len(kinds) THEN <<>>
    ELSE Member(kinds[k], k) \o MemberLines(kinds, k + 1)

\* the text of the class with the members of the given kinds
ClassText(annotation, kinds) ==
    ClassHead(annotation) \o MemberLines(kinds, 1) \o <<ClassClose>>

ClassBodies == UNION {[1..n -> MemberKinds] : n \in 1..MaxMembers}

UncoveredSets == SUBSET {TestA, TestB}

InitFilter ==
    /\ \E kinds \in ClassBodies, uncovered_methods \in UncoveredSets,
          annotation \in HeadAnnotations :
          filt = [pc |-> "ready", kinds |-> kinds,
                  test_content |-> ClassText(annotation, kinds),
                  uncovered_methods |-> uncovered_methods, result |-> <<>>]
    /\ pc = "idle"
    /\ max_iterations_arg = None
    /\ setting = Unset
    /\ max_iterations = 0
    /\ iteration = 0
    /\ current_code = JavaCode
    /\ validation_result = WarningReport
    /\ best_iteration = NoBest
    /\ returned = NotReturned
    /\ history = <<>>
    /\ gen_calls = 0
    /\ val_calls = 0
    /\ gen_threw_at = 0
    /\ val_outcome = "none"
    /\ cov = IdleCov
    /\ ver = IdleVer
    /\ place = IdlePlace
    /\ batch = IdleBatch
    /\ imp = IdleImp
    /\ req = IdleReq
    /\ gen = IdleGen
    /\ ana = IdleAna
    /\ unit = IdleUnit

\* one call of filter_test_content_for_uncovered_methods
FilterTestContent ==
    /\ filt.pc = "ready"
    /\ filt' = [filt EXCEPT
                   !.pc = "filtered",
                   !.result = FilterLines(filt.test_content, filt.uncovered_methods)]
    /\ UNCHANGED <<loopVars, cov, ver, place, batch, imp, req, gen, ana, unit>>

NextFilter == FilterTestContent

SpecFilter == InitFilter /\ [][NextFilter]_vars

\* the lines of member k that the result holds, in the order of the result
ResultOfMember(k) == SelectSeq(filt.result, LAMBDA l : l.member = k)

RECURSIVE BraceDepth(_)
BraceDepth(lines) ==
    IF lines = <<>> THEN 0
    ELSE lines[1].opens - lines[1].closes + BraceDepth(Tail(lines))

ClassClosings ==
    SelectSeq(filt.result, LAMBDA l : l.role \in {"class_close", "added_brace"})

\* C22: every annotated test method whose name is in the uncovered set is
\* copied whole, from its annotation line to the line that closes its body,
\* and no line of an annotated test method whose name is not in the set is
\* copied; also with nested blocks in the body and with braces in the
\* annotation lines.
C22_TestMethodsCopiedOrSkippedWhole ==
    (filt.pc = "filtered" /\ filt.uncovered_methods # {}) =>
        \A k \in 1..Len(filt.kinds) :
            filt.kinds[k] \in TestKinds =>
                ResultOfMember(k) =
                    IF TestNameOf(filt.kinds[k]) \in filt.uncovered_methods
                    THEN Member(filt.kinds[k], k) ELSE <<>>

\* C23: for input with balanced braces the output has balanced braces and
\* closes the class exactly once, whatever fields, lifecycle methods, test
\* methods and helper methods the class holds.
C23_OutputBracesBalanced ==
    (filt.pc = "filtered" /\ filt.uncovered_methods # {}) =>
        /\ BraceDepth(filt.test_content) = 0
        /\ BraceDepth(filt.result) = 0
        /\ Len(ClassClosings) = 1

\* C24: the output holds every import line, every line of every field
\* declaration and every lifecycle method whole, whichever test methods are
\* kept or skipped.
C24_ScaffoldingRetained ==
    (filt.pc = "filtered" /\ filt.uncovered_methods # {}) =>
        /\ SelectSeq(filt.result, LAMBDA l : l.role = "import")
              = SelectSeq(filt.test_content, LAMBDA l : l.role = "import")
        /\ \A k \in 1..Len(filt.kinds) :
              filt.kinds[k] \in {"field", "mock_field", "plain_field", "lifecycle"} =>
                  ResultOfMember(k) = Member(filt.kinds[k], k)

(***************************************************************************)
(* The two coverage rules on the same names.  The place step reads the     *)
(* existing names with extract_test_methods_from_file (core.py 2616), the  *)
(* same reader get_uncovered_methods uses (core.py 2368).                  *)
(***************************************************************************)

\* C25: for the same candidate names and the same existing test names,
\* find_uncovered_test_methods (the rule of the place step) leaves exactly
\* the names get_uncovered_methods leaves, minimum-length guards and 40%/50%
\* containment thresholds included.
C25_PlaceRuleAgreesWithReconciliation ==
    cov.pc = "done" =>
        find_uncovered_test_methods(cov.class_methods,
                                    AllTestMethods(cov.existing_test_files))
            = cov.uncovered

RECURSIVE IsSubList(_, _)
\* a is b with some elements left out, order kept
IsSubList(a, b) ==
    IF a = <<>> THEN TRUE
    ELSE IF b = <<>> THEN FALSE
    ELSE IF Head(a) = Head(b) THEN IsSubList(Tail(a), Tail(b))
    ELSE IsSubList(a, Tail(b))


\* test names an enlarged artifact set may add
ExtraNames ==
    {p \o s \o Fill(k) \o q : p \in {<<>>, TestWord}, s \in Stems,
                              k \in {0, MaxPad}, q \in Suffixes}
      \cup {TestCreate, DeleteTest}

\* files an enlarged artifact set may add
ExtraFiles ==
    {File(<<t>>) : t \in ExtraNames \ {<<>>}} \cup {File(<<>>), UnreadableFile}

\* C29: the list get_uncovered_methods returns for the existing test files
\* plus one more file is an order-preserving sub-list of the list it returns
\* for the existing test files alone, and both are order-preserving
\* sub-lists of the candidate list: more test names never uncover a method.
C29_CoverageMonotone ==
    cov.pc = "done" =>
        /\ IsSubList(cov.uncovered, cov.class_methods)
        /\ \A extra \in ExtraFiles :
              LET larger == get_uncovered_methods(cov.class_methods,
                                cov.existing_test_files \o <<extra>>)
              IN  /\ IsSubList(larger, cov.uncovered)
                  /\ IsSubList(larger, cov.class_methods)

\* one of two candidates is covered by the existing files and the other is
\* covered only once a further file is added
C29_Witness ==
    /\ cov.pc = "done"
    /\ cov.class_methods = <<Create, Delete>>
    /\ cov.uncovered = <<Delete>>
    /\ get_uncovered_methods(cov.class_methods,
           cov.existing_test_files \o <<File(<<DeleteTest>>)>>) = <<>>

(***************************************************************************)
(* The issues of one repair request (core.py 491-539).  An issue is the    *)
(* name of the collection of the report it was taken from.                 *)
(***************************************************************************)
MaxIssues == 6

MaxIssuesPerRequest == 10

RECURSIVE Repeat(_, _)
Repeat(x, n) == IF n = 0 THEN <<>> ELSE <<x>> \o Repeat(x, n - 1)

\* core.py 491-522: critical issues, then missing imports, then
\* compilation errors, then unused imports
all_issues(r) ==
    Repeat("critical_issues", r.critical_issues)
        \o Repeat("missing_imports", r.missing_imports)
        \o Repeat("compilation_errors", r.compilation_errors)
        \o Repeat("unused_imports", r.unused_imports)

\* core.py 533: all_issues[:10]
issues_summary(issues) ==
    SubSeq(issues, 1, IF Len(issues) < MaxIssuesPerRequest THEN Len(issues)
                      ELSE MaxIssuesPerRequest)

\* core.py 478: the weight of one issue of a collection in the score
WeightOf(collection) ==
    CASE collection = "critical_issues" -> CriticalWeight
      [] collection = "compilation_errors" -> CompilationWeight
      [] collection = "missing_imports" -> MissingImportWeight
      [] collection = "unused_imports" -> UnusedImportWeight

IssueCounts == 0..MaxIssues

InitIssues ==
    /\ \E c \in IssueCounts, m \in IssueCounts, k \in IssueCounts, u \in IssueCounts :
          req = [pc |-> "ready", validation_result |-> Report("FAIL", c, m, k, u, "ok"),
                 issues_summary |-> <<>>, dropped |-> <<>>]
    /\ pc = "idle"
    /\ max_iterations_arg = None
    /\ setting = Unset
    /\ max_iterations = 0
    /\ iteration = 0
    /\ current_code = JavaCode
    /\ validation_result = WarningReport
    /\ best_iteration = NoBest
    /\ returned = NotReturned
    /\ history = <<>>
    /\ gen_calls = 0
    /\ val_calls = 0
    /\ gen_threw_at = 0
    /\ val_outcome = "none"
    /\ cov = IdleCov
    /\ ver = IdleVer
    /\ place = IdlePlace
    /\ batch = IdleBatch
    /\ imp = IdleImp
    /\ filt = IdleFilt
    /\ gen = IdleGen
    /\ ana = IdleAna
    /\ unit = IdleUnit

\* core.py 524-527: a report without issues ends the loop, no request is made
NoIssuesLeft ==
    /\ req.pc = "ready"
    /\ all_issues(req.validation_result) = <<>>
    /\ req' = [req EXCEPT !.pc = "no_request"]
    /\ UNCHANGED <<loopVars, cov, ver, place, batch, imp, filt, gen, ana, unit>>

\* core.py 529-539: the request lists the first issues of all_issues
BuildRequest ==
    /\ req.pc = "ready"
    /\ all_issues(req.validation_result) # <<>>
    /\ LET issues == all_issues(req.validation_result)
           summary == issues_summary(issues)
       IN  req' = [req EXCEPT !.pc = "requested",
                              !.issues_summary = summary,
                              !.dropped = SubSeq(issues, Len(summary) + 1, Len(issues))]
    /\ UNCHANGED <<loopVars, cov, ver, place, batch, imp, filt, gen, ana, unit>>

NextIssues == NoIssuesLeft \/ BuildRequest

SpecIssues == InitIssues /\ [][NextIssues]_vars

\* C26: a repair request lists at most 10 issues, and no issue left out of
\* it comes from a collection that the score weights more heavily than the
\* collection of an issue listed in it.
C26_RequestHoldsMostRelevantIssues ==
    req.pc = "requested" =>
        /\ Len(req.issues_summary) <= MaxIssuesPerRequest
        /\ \A d \in 1..Len(req.dropped), r \in 1..Len(req.issues_summary) :
              WeightOf(req.dropped[d]) <= WeightOf(req.issues_summary[r])

(***************************************************************************)
(* The end of generate_enhanced_junit_test_with_files, core.py 2061-2160:  *)
(* the generated test is validated, its imports are corrected, and the     *)
(* repair loop of core.py 432-670 runs on it when the report asks for it.  *)
(* validate_generated_test_with_llm never raises (core.py 401-431).        *)
(* The content is the pair of its import state and of the code the repair  *)
(* loop returned (JavaCode: the loop's input).                             *)
(***************************************************************************)
\* a mutant of StartsRepair: the status alone decides
StartsRepair_on_any_fail(r) == r.validation_status = "FAIL"

\* core.py 2141: validation_status is FAIL and critical_issues is not
\* empty; the other collections are not looked at
StartsRepair(r) == r.validation_status = "FAIL" /\ r.critical_issues > 0

\* the answers of the validator in the pipeline: those of the repair loop
\* and parsed reports whose status is neither PASS nor FAIL
PipelineOutcomes ==
    ValidatorOutcomes
        \cup {[kind |-> "parsed", report |-> Report(st, 1, 0, 1, 0, "ok")] :
                 st \in {"WARNING", "ERROR"}}
        \cup {[kind |-> "parsed", report |-> CriticalNullCollectionReport]}

NoReport == Report("NONE", 0, 0, 0, 0, "ok")

InitPipeline ==
    /\ gen = [pc |-> "validate", imports |-> "generated", code |-> JavaCode,
              validation_result |-> NoReport, gate_report |-> NoReport,
              repair_started |-> FALSE, returned |-> FALSE]
    /\ pc = "idle"
    /\ max_iterations_arg = None
    /\ setting \in LoopSettings
    /\ max_iterations = 0
    /\ iteration = 0
    /\ current_code = JavaCode
    /\ validation_result = WarningReport
    /\ best_iteration = NoBest
    /\ returned = NotReturned
    /\ history = <<>>
    /\ gen_calls = 0
    /\ val_calls = 0
    /\ gen_threw_at = 0
    /\ val_outcome = "none"
    /\ cov = IdleCov
    /\ ver = IdleVer
    /\ place = IdlePlace
    /\ batch = IdleBatch
    /\ imp = IdleImp
    /\ filt = IdleFilt
    /\ req = IdleReq
    /\ ana = IdleAna
    /\ unit = IdleUnit

\* core.py 2064-2130: the validator answers the first call; the import
\* lines are corrected and, when one was removed or the import of the
\* class was missing, the content is rebound and the validator is called
\* again (line 2134): until it answers, the report is the first one
ValidateGenerated ==
    /\ gen.pc = "validate"
    /\ \E first \in PipelineOutcomes, fixed \in BOOLEAN :
          gen' = [gen EXCEPT !.pc = IF fixed THEN "validate_corrected" ELSE "gate",
                             !.imports = IF fixed THEN "corrected" ELSE @,
                             !.validation_result =
                                 validate_java_imports_and_compilation(first)]
    /\ UNCHANGED <<loopVars, cov, ver, place, batch, imp, filt, req, ana, unit>>

\* core.py 2134-2138: the validator answers for the corrected content
ValidateCorrected ==
    /\ gen.pc = "validate_corrected"
    /\ \E second \in PipelineOutcomes :
          gen' = [gen EXCEPT !.pc = "gate",
                             !.validation_result =
                                 validate_java_imports_and_compilation(second)]
    /\ UNCHANGED <<loopVars, cov, ver, place, batch, imp, filt, req, ana, unit>>

\* core.py 2141-2143: the repair loop is called on the content and the
\* report, without a max_iterations argument
StartRepair ==
    /\ gen.pc = "gate"
    /\ StartsRepair(gen.validation_result)
    /\ gen' = [gen EXCEPT !.pc = "repairing", !.repair_started = TRUE,
                          !.gate_report = gen.validation_result]
    /\ pc' = "start"
    /\ validation_result' = gen.validation_result
    /\ UNCHANGED <<max_iterations_arg, setting, max_iterations, iteration,
                   current_code, best_iteration, returned, history, gen_calls,
                   val_calls, gen_threw_at, val_outcome,
                   cov, ver, place, batch, imp, filt, req, ana, unit>>

\* core.py 2143: the loop has returned and its return value is bound to
\* the content; the report is still the one the condition read
BindRepaired ==
    /\ gen.pc = "repairing"
    /\ pc = "done"
    /\ gen' = [gen EXCEPT !.pc = "revalidate_repaired", !.code = returned]
    /\ UNCHANGED <<loopVars, cov, ver, place, batch, imp, filt, req, ana, unit>>

\* core.py 2145-2149: the validator answers for the repaired content
RevalidateRepaired ==
    /\ gen.pc = "revalidate_repaired"
    /\ \E outcome \in PipelineOutcomes :
          gen' = [gen EXCEPT !.pc = "return",
                             !.validation_result =
                                 validate_java_imports_and_compilation(outcome)]
    /\ UNCHANGED <<loopVars, cov, ver, place, batch, imp, filt, req, ana, unit>>

\* core.py 2141: the condition is false, the content is left as it is
SkipRepair ==
    /\ gen.pc = "gate"
    /\ ~StartsRepair(gen.validation_result)
    /\ gen' = [gen EXCEPT !.pc = "return", !.gate_report = gen.validation_result]
    /\ UNCHANGED <<loopVars, cov, ver, place, batch, imp, filt, req, ana, unit>>

\* core.py 2150-2160
ReturnContent ==
    /\ gen.pc = "return"
    /\ gen' = [gen EXCEPT !.pc = "returned", !.returned = TRUE]
    /\ UNCHANGED <<loopVars, cov, ver, place, batch, imp, filt, req, ana, unit>>

NextPipeline ==
    \/ ValidateGenerated
    \/ ValidateCorrected
    \/ StartRepair
    \/ Start
    \/ ExtractIssues
    \/ Generate
    \/ Revalidate
    \/ ScoreAndCompare
    \/ Finish
    \/ BindRepaired
    \/ RevalidateRepaired
    \/ SkipRepair
    \/ ReturnContent

SpecPipeline == InitPipeline /\ [][NextPipeline]_vars

\* C28: the repair loop runs only on a report with status FAIL and at least
\* one critical issue; with any other report at the condition of core.py
\* 2141 (WARNING, ERROR, PASS, or FAIL without critical issue) the loop is
\* never entered, the generator is not called again and the content
\* returned is the validated content, unrepaired.
C28_RepairOnlyOnFailWithCritical ==
    /\ gen.repair_started =>
          /\ gen.gate_report.validation_status = "FAIL"
          /\ gen.gate_report.critical_issues > 0
    /\ (gen.pc \in {"return", "returned"}
          /\ ~(gen.gate_report.validation_status = "FAIL"
                  /\ gen.gate_report.critical_issues > 0)) =>
          /\ ~gen.repair_started
          /\ pc = "idle"
          /\ gen_calls = 0
          /\ gen.code = JavaCode

\* a FAIL report with a compilation error and a missing import and no
\* critical issue reached the condition after the imports were corrected,
\* and the content was returned without repair
C28_Witness ==
    /\ gen.pc = "returned"
    /\ gen.gate_report = Report("FAIL", 0, 1, 1, 0, "ok")
    /\ gen.imports = "corrected"
    /\ ~gen.repair_started
    /\ gen_calls = 0

(***************************************************************************)
(* The analysis of one unit with incremental support, core.py 1140-1428.   *)
(* The standard analysis gives the public and the private methods; the     *)
(* existing test files are those the two searches (output directory and    *)
(* extracted archive) find when they run; they run for a unit whose path   *)
(* holds a directory named src.  existing_test_files in the result is the  *)
(* count of incremental_info, NoInfo when the analysis carries none.       *)
(***************************************************************************)
AnalysisInputs ==
    {[language |-> l, enabled |-> e, has_src |-> src, methods |-> ms,
      private_methods |-> ps, existing_test_files |-> fs] :
        l \in {"java", "kt"}, e \in BOOLEAN, src \in BOOLEAN,
        ms \in {<<m>> : m \in MethodNames} \cup {<<Create, Delete>>, <<>>},
        ps \in {<<>>, <<Create>>, <<Delete>>},
        fs \in {<<>>, <<File(<<TestCreate>>)>>,
                <<File(<<TestCreate>>), File(<<DeleteTest>>)>>,
                <<UnreadableFile>>}}

InitAnalysis ==
    /\ \E in \in AnalysisInputs :
          ana = [pc |-> "ready", language |-> in.language, enabled |-> in.enabled,
                 has_src |-> in.has_src,
                 methods |-> in.methods, private_methods |-> in.private_methods,
                 existing_test_files |-> in.existing_test_files,
                 analysis |-> Analysis(<<>>, <<>>, NoInfo)]
    /\ pc = "idle"
    /\ max_iterations_arg = None
    /\ setting = Unset
    /\ max_iterations = 0
    /\ iteration = 0
    /\ current_code = JavaCode
    /\ validation_result = WarningReport
    /\ best_iteration = NoBest
    /\ returned = NotReturned
    /\ history = <<>>
    /\ gen_calls = 0
    /\ val_calls = 0
    /\ gen_threw_at = 0
    /\ val_outcome = "none"
    /\ cov = IdleCov
    /\ ver = IdleVer
    /\ place = IdlePlace
    /\ batch = IdleBatch
    /\ imp = IdleImp
    /\ filt = IdleFilt
    /\ req = IdleReq
    /\ gen = IdleGen
    /\ unit = IdleUnit

AnalyzeWithIncrementalSupport ==
    /\ ana.pc = "ready"
    /\ ana' = [ana EXCEPT !.pc = "analyzed",
                          !.analysis = analyze_with_incremental_support(
                                           ana.language, ana.enabled, ana.has_src,
                                           ana.methods,
                                           ana.private_methods,
                                           ana.existing_test_files)]
    /\ UNCHANGED <<loopVars, cov, ver, place, batch, imp, filt, req, gen, unit>>

NextAnalysis == AnalyzeWithIncrementalSupport

SpecAnalysis == InitAnalysis /\ [][NextAnalysis]_vars

\* C27: in incremental mode, when existing test files were found for the
\* unit (the searches ran and gave a file), the public and the private
\* methods of the analysis are those get_uncovered_methods leaves, for a
\* Kotlin unit as for a Java unit.
C27_OnlyUncoveredMethodsPassedOn ==
    (/\ ana.pc = "analyzed"
     /\ ana.enabled
     /\ ana.has_src
     /\ ana.existing_test_files # <<>>) =>
        /\ ana.analysis.methods
              = get_uncovered_methods(ana.methods, ana.existing_test_files)
        /\ ana.analysis.private_methods
              = get_uncovered_methods(ana.private_methods, ana.existing_test_files)

(***************************************************************************)
(* One unit of the batch in incremental mode, core.py 3361-3373: the       *)
(* analysis with incremental support looks for existing test files, the    *)
(* generation returns a placeholder when nothing is left to cover, and     *)
(* save_test_file places what the generation returned.  Nothing writes to  *)
(* the directories between the analysis and the placing.  The unit is a    *)
(* Java or a Kotlin file.  Its path holds a directory named src, or it     *)
(* does not: then the analysis falls back to the standard one and the save *)
(* raises.  The output directory can be written when the save runs, or it  *)
(* cannot.                                                                 *)
(***************************************************************************)
UnitTestMethods == {<<TestCreate>>, <<DeleteTest>>, <<TestCreate, DeleteTest>>}

UnitDirectoriesOver(ns) ==
    {[n \in ns |-> Content(n, f[n])] : f \in [ns -> UnitTestMethods]}

UnitOutputDirectories == UNION {UnitDirectoriesOver(1..k) : k \in 0..1}

UnitExtractedTrees ==
    {<<>>} \cup {<<a>> : a \in UNION {UnitDirectoriesOver(ns) : ns \in {{1}, {1, 2}, {2}}}}
           \cup {<<a, b>> : a \in UnitDirectoriesOver({1}), b \in UnitDirectoriesOver({1})}

UnitAnswers ==
    {Content(PrimaryFile, ms) : ms \in {<<TestCreate>>, <<DeleteTest>>}}

InitUnit ==
    /\ \E out \in UnitOutputDirectories, zip \in UnitExtractedTrees,
          methods \in {<<Create>>, <<Create, Delete>>},
          private_methods \in {<<>>, <<Delete>>}, has_src \in BOOLEAN,
          language \in {"java", "kt"} :
          unit = [pc |-> "analyze", out |-> out, zip |-> zip, before |-> out,
                  has_src |-> has_src, language |-> language,
                  methods |-> methods, private_methods |-> private_methods,
                  analysis |-> Analysis(<<>>, <<>>, NoInfo),
                  placeholder |-> FALSE, test_content |-> EmptyContent,
                  last |-> NoPlace]
    /\ pc = "idle"
    /\ max_iterations_arg = None
    /\ setting = Unset
    /\ max_iterations = 0
    /\ iteration = 0
    /\ current_code = JavaCode
    /\ validation_result = WarningReport
    /\ best_iteration = NoBest
    /\ returned = NotReturned
    /\ history = <<>>
    /\ gen_calls = 0
    /\ val_calls = 0
    /\ gen_threw_at = 0
    /\ val_outcome = "none"
    /\ cov = IdleCov
    /\ ver = IdleVer
    /\ place = IdlePlace
    /\ batch = IdleBatch
    /\ imp = IdleImp
    /\ filt = IdleFilt
    /\ req = IdleReq
    /\ gen = IdleGen
    /\ ana = IdleAna

\* core.py 1824-1833: the analysis with incremental support
AnalyzeUnit ==
    /\ unit.pc = "analyze"
    /\ LET found == ExistingTestFilesFound(unit.language, unit.out, unit.zip)
           existing_test_files ==
               [i \in 1..Len(found) |-> FileOf(ReadFile(unit.out, unit.zip, found[i]))]
       IN  unit' = [unit EXCEPT
                       !.pc = "generate",
                       !.analysis = analyze_with_incremental_support(
                                        unit.language, TRUE, unit.has_src,
                                        unit.methods,
                                        unit.private_methods,
                                        existing_test_files)]
    /\ UNCHANGED <<loopVars, cov, ver, place, batch, imp, filt, req, gen, ana>>

\* core.py 1836-1849: nothing left to cover, the placeholder is returned
\* and the generator is not called
ReturnPlaceholder ==
    /\ unit.pc = "generate"
    /\ ReturnsPlaceholder(unit.analysis)
    /\ unit' = [unit EXCEPT !.pc = "save", !.placeholder = TRUE,
                            !.test_content = Placeholder]
    /\ UNCHANGED <<loopVars, cov, ver, place, batch, imp, filt, req, gen, ana>>

\* core.py 1851-2160: the generator answers with a test class
GenerateForUnit ==
    /\ unit.pc = "generate"
    /\ ~ReturnsPlaceholder(unit.analysis)
    /\ \E answer \in UnitAnswers :
          unit' = [unit EXCEPT !.pc = "save", !.test_content = answer]
    /\ UNCHANGED <<loopVars, cov, ver, place, batch, imp, filt, req, gen, ana>>

\* core.py 3372-3373; for a path without 'src' the save raises (line
\* 2527) before it writes, and it raises when a write outside a try fails
SaveUnit ==
    /\ unit.pc = "save"
    /\ \E writable \in BOOLEAN :
          LET r == save_test_file(unit.language, TRUE, unit.has_src, writable,
                                  unit.out, unit.zip, unit.test_content)
          IN  unit' = [unit EXCEPT !.pc = IF r.branch = "raised" THEN "save_raised"
                                          ELSE "saved",
                                   !.out = r.out, !.last = r]
    /\ UNCHANGED <<loopVars, cov, ver, place, batch, imp, filt, req, gen, ana>>

NextUnit == AnalyzeUnit \/ ReturnPlaceholder \/ GenerateForUnit \/ SaveUnit

SpecUnit == InitUnit /\ [][NextUnit]_vars

\* C30: when the analysis found existing test files and no uncovered
\* method, the placeholder is in no file of the output directory after the
\* placing: the placing takes the branch that copies, and every file of the
\* output directory holds what it held before or the content of an existing
\* test file.
C30_PlaceholderNeverWritten ==
    (unit.pc = "saved" /\ unit.placeholder) =>
        /\ unit.last.branch = "covered"
        /\ unit.last.new_file = 0
        /\ \A n \in DOMAIN unit.out :
              /\ unit.out[n] # Placeholder
              /\ \/ n \in DOMAIN unit.before /\ unit.out[n] = unit.before[n]
                 \/ \E i \in 1..Len(unit.last.existing_files) :
                       unit.out[n] = ReadFile(unit.before, unit.zip,
                                              unit.last.existing_files[i])

\* the placeholder was returned for a unit whose tests lie in the extracted
\* tree only, and the placing copied them into the empty output directory
C30_Witness ==
    /\ unit.pc = "saved"
    /\ unit.placeholder
    /\ unit.before = <<>>
    /\ unit.zip # <<>>
    /\ DOMAIN unit.out # {}

====
